---- MODULE Spec2Model ----
(***************************************************************************)
(* A model of pyaxiom's incomplete-multidimensional DSG readers and of the *)
(* sensor URN codec:                                                       *)
(*   - IncompleteMultidimensionalProfile.is_mine / to_dataframe            *)
(*   - IncompleteMultidimensionalTimeseries.is_mine                        *)
(*   - IncompleteMultidimensionalProfile.calculated_metadata               *)
(*   - utils.urnify_from_dict / utils.dictify_urn                          *)
(* Text is a sequence of one-character strings, so that splitting,         *)
(* replacing and case conversion are computed and not assumed.             *)
(***************************************************************************)
EXTENDS Integers, Sequences, FiniteSets, TLC

VARIABLES
    dsg,        \* the dataset handed to is_mine / to_dataframe
    mine,       \* outcome of IncompleteMultidimensionalProfile.is_mine
    ts_mine,    \* outcome of IncompleteMultidimensionalTimeseries.is_mine
    df,         \* outcome of to_dataframe (with the flags it was called with)
    data_dict,  \* the record handed to urnify_from_dict
    urn,        \* outcome of urnify_from_dict
    decoded,    \* outcome of dictify_urn(urn)
    meta,       \* outcome of calculated_metadata
    scanned     \* a cell_methods text and what the encoder's scan finds in it

vars == <<dsg, mine, ts_mine, df, data_dict, urn, decoded, meta, scanned>>

\* ------------------------------------------------------------------ bounds

\* largest profile dimension of a flattened dataset
MaxP == 2
\* largest level dimension of a flattened dataset
MaxZ == 2
\* largest number of data variables of a flattened dataset
MaxVars == 2
\* largest grid (profiles x levels) of a flattened dataset
MaxCells == 4
\* largest number of data cells (data variables x profiles x levels) of a
\* flattened dataset
MaxDataCells == 8

\* -------------------------------------------------------------------- text

LowerAlphabet == <<"a","b","c","d","e","f","g","h","i","j","k","l","m",
                   "n","o","p","q","r","s","t","u","v","w","x","y","z">>
UpperAlphabet == <<"A","B","C","D","E","F","G","H","I","J","K","L","M",
                   "N","O","P","Q","R","S","T","U","V","W","X","Y","Z">>

\* str.lower on one character
LowerChar(c) ==
    IF \E i \in DOMAIN UpperAlphabet : UpperAlphabet[i] = c
    THEN LowerAlphabet[CHOOSE i \in DOMAIN UpperAlphabet : UpperAlphabet[i] = c]
    ELSE c

\* str.upper on one character
UpperChar(c) ==
    IF \E i \in DOMAIN LowerAlphabet : LowerAlphabet[i] = c
    THEN UpperAlphabet[CHOOSE i \in DOMAIN LowerAlphabet : LowerAlphabet[i] = c]
    ELSE c

\* str.lower
lower(s) ==
    CHOOSE text \in {[i \in DOMAIN t |-> LowerChar(t[i])] : t \in {s}} : TRUE

\* str.upper
upper(s) ==
    CHOOSE text \in {[i \in DOMAIN t |-> UpperChar(t[i])] : t \in {s}} : TRUE

\* the literals the classifiers compare the feature type with
STR_profile == <<"p","r","o","f","i","l","e">>
STR_timeseries == <<"t","i","m","e","s","e","r","i","e","s">>

\* ----------------------------------------------------------------- dataset

\* a variable that only carries structure (classification never reads data)
Var(name, dtype, dimensions) ==
    [name |-> name, dtype |-> dtype, dimensions |-> dimensions, data |-> <<>>]

\* a variable with its array, flattened in storage (row-major) order
DataVar(name, dtype, dimensions, data) ==
    [name |-> name, dtype |-> dtype, dimensions |-> dimensions, data |-> data]

RECURSIVE DimProduct(_, _)
DimProduct(dimensions, names) ==
    IF names = <<>> THEN 1
    ELSE dimensions[Head(names)] * DimProduct(dimensions, Tail(names))

\* Variable.size: the product of the sizes of the variable's dimensions
size(ds, v) == DimProduct(ds.dimensions, v.dimensions)

\* a global attribute that is set / that is not set on the dataset
Attr(value) == [has |-> TRUE, value |-> value]
NoAttr == [has |-> FALSE, value |-> <<>>]

\* ------------------------------------------------- profile classification

\* a dtype test that never recognises a character array
issubdtype_S_never(dtype) == FALSE

\* np.issubdtype(pvar.dtype, 'S')
issubdtype_S(dtype) == dtype = "S1"

minimum_dimensions == 1
maximum_dimensions == 2

\* the loop's assertions without the one on the number of dimensions
ProfileVarCheck_any_rank(ds, dv, p_name, z_name) ==
    /\ \E i \in DOMAIN dv.dimensions : dv.dimensions[i] = z_name
    /\ \E i \in DOMAIN dv.dimensions : dv.dimensions[i] = p_name
    /\ size(ds, dv) = ds.dimensions[z_name] * ds.dimensions[p_name]

\* the assertions the loop makes on one of datavars() + [z]
ProfileVarCheck(ds, dv, p_name, z_name) ==
    /\ Len(dv.dimensions) = 2
    /\ \E i \in DOMAIN dv.dimensions : dv.dimensions[i] = z_name
    /\ \E i \in DOMAIN dv.dimensions : dv.dimensions[i] = p_name
    /\ size(ds, dv) = ds.dimensions[z_name] * ds.dimensions[p_name]

\* the body of the try block: "ok", or the exception the first failing
\* statement raises
ProfileTry(ds) ==
    IF Len(ds.pvars) # 1 THEN "AssertionError"
    ELSE IF ~ds.featureType.has THEN "AttributeError"
    ELSE IF lower(ds.featureType.value) # STR_profile THEN "AssertionError"
    ELSE IF Len(ds.t_axes) # 1 THEN "AssertionError"
    ELSE IF Len(ds.x_axes) # 1 THEN "AssertionError"
    ELSE IF Len(ds.y_axes) # 1 THEN "AssertionError"
    ELSE IF Len(ds.z_axes) # 1 THEN "AssertionError"
    ELSE
      LET pvar == ds.pvars[1]
          shift == IF issubdtype_S(pvar.dtype) THEN 1 ELSE 0
          lo == minimum_dimensions + shift
          hi == maximum_dimensions + shift
          t == ds.t_axes[1]
          x == ds.x_axes[1]
          y == ds.y_axes[1]
          z == ds.z_axes[1]
      IN
      IF ~(lo <= Len(pvar.dimensions) /\ Len(pvar.dimensions) <= hi)
        THEN "AssertionError"
      ELSE IF size(ds, t) # size(ds, pvar) THEN "AssertionError"
      ELSE IF size(ds, x) # size(ds, pvar) THEN "AssertionError"
      ELSE IF size(ds, y) # size(ds, pvar) THEN "AssertionError"
      ELSE
        LET p_name == pvar.dimensions[1]
            others == SelectSeq(z.dimensions, LAMBDA dn : dn # p_name)
        IN
        IF others = <<>> THEN "IndexError"
        ELSE
          LET z_name == others[1]
              dvs == ds.datavars \o <<z>>
          IN
          IF \A i \in DOMAIN dvs : ProfileVarCheck(ds, dvs[i], p_name, z_name)
          THEN "ok" ELSE "AssertionError"

\* an except clause that catches failed assertions only
ProfileCaught_assertions_only(exc) == exc = "AssertionError"

\* except BaseException: every exception is caught
ProfileCaught(exc) == TRUE

\* IncompleteMultidimensionalProfile.is_mine: "match", "nomatch", or the
\* name of the exception that leaves the method
Profile_is_mine(ds) ==
    LET r == ProfileTry(ds) IN
    IF r = "ok" THEN "match"
    ELSE IF ProfileCaught(r) THEN "nomatch"
    ELSE r

\* ---------------------------------------------- timeseries classification

\* a timeseries classification that does not look at the feature type
TimeseriesTry_any_feature(ds) ==
    IF Len(ds.rvars) # 1 THEN "AssertionError"
    ELSE IF ~ds.featureType.has THEN "AttributeError"
    ELSE IF ~(Len(ds.t_axes) >= 1) THEN "AssertionError"
    ELSE IF ~(Len(ds.x_axes) >= 1) THEN "AssertionError"
    ELSE IF ~(Len(ds.y_axes) >= 1) THEN "AssertionError"
    ELSE IF ds.sample_dimension_vars # 0 THEN "AssertionError"
    ELSE IF ds.instance_dimension_vars # 0 THEN "AssertionError"
    ELSE IF Len(ds.t_axes[1].dimensions) # 2 THEN "AssertionError"
    ELSE IF ~(Len(ds.rvars[1].dimensions) <= 2) THEN "AssertionError"
    ELSE "ok"

\* the body of the try block of IncompleteMultidimensionalTimeseries.is_mine
TimeseriesTry(ds) ==
    IF Len(ds.rvars) # 1 THEN "AssertionError"
    ELSE IF ~ds.featureType.has THEN "AttributeError"
    ELSE IF lower(ds.featureType.value) # STR_timeseries THEN "AssertionError"
    ELSE IF ~(Len(ds.t_axes) >= 1) THEN "AssertionError"
    ELSE IF ~(Len(ds.x_axes) >= 1) THEN "AssertionError"
    ELSE IF ~(Len(ds.y_axes) >= 1) THEN "AssertionError"
    ELSE IF ds.sample_dimension_vars # 0 THEN "AssertionError"
    ELSE IF ds.instance_dimension_vars # 0 THEN "AssertionError"
    ELSE IF Len(ds.t_axes[1].dimensions) # 2 THEN "AssertionError"
    ELSE
      LET rvar == ds.rvars[1] IN
      IF ~(0 <= Len(rvar.dimensions) /\ Len(rvar.dimensions) <= 2)
        THEN "AssertionError"
      ELSE "ok"

\* except AssertionError: only a failed assertion is caught
TimeseriesCaught(exc) == exc = "AssertionError"

\* IncompleteMultidimensionalTimeseries.is_mine
Timeseries_is_mine(ds) ==
    LET r == TimeseriesTry(ds) IN
    IF r = "ok" THEN "match"
    ELSE IF TimeseriesCaught(r) THEN "nomatch"
    ELSE r

\* ------------------------------------------------------------ array cells

\* One array element.  mask: the element is masked or not finite (what
\* np.ma.fix_invalid leaves masked); num: the element converts to an integer;
\* v: its value, in units of 10^-6.
Num(v) == [mask |-> FALSE, num |-> TRUE, v |-> v]
Masked == [mask |-> TRUE, num |-> TRUE, v |-> 0]
Text(v) == [mask |-> FALSE, num |-> FALSE, v |-> v]

\* one unit of the 5th, 3rd and 2nd decimal, in units of 10^-6
Decimals5 == 10
Decimals3 == 1000
Decimals2 == 10000

\* ndarray.round(decimals) on one value: to the nearest multiple of q,
\* halves to the even multiple
RoundTo(v, q) ==
    LET lo == (v \div q) * q
        r == v - lo
    IN IF 2 * r < q THEN lo
       ELSE IF 2 * r > q THEN lo + q
       ELSE IF (lo \div q) % 2 = 0 THEN lo ELSE lo + q

\* rounding a masked array: masked elements stay masked
round(a, q) ==
    [i \in DOMAIN a |-> IF a[i].mask THEN a[i] ELSE Num(RoundTo(a[i].v, q))]

\* a repeat that tiles the whole array n times (what np.tile does)
repeat_tiled(a, n) == [i \in 1..(Len(a) * n) |-> a[((i - 1) % Len(a)) + 1]]

\* ndarray.repeat(n) of a flat array: each element n times, contiguously
repeat(a, n) == [i \in 1..(Len(a) * n) |-> a[((i - 1) \div n) + 1]]

\* pygc.great_distance(...)['distance'] between two positions: 0 between
\* equal positions, positive otherwise (the geodesic itself is the library's)
great_distance(y0, x0, y1, x1) ==
    (IF y1.v >= y0.v THEN y1.v - y0.v ELSE y0.v - y1.v)
    + (IF x1.v >= x0.v THEN x1.v - x0.v ELSE x0.v - x1.v)

\* the array itself, nothing accumulated
cumsum_none(a) == a

RECURSIVE cumsum(_)
\* np.cumsum
cumsum(a) ==
    IF a = <<>> THEN <<>>
    ELSE LET front == cumsum(SubSeq(a, 1, Len(a) - 1))
         IN Append(front, (IF front = <<>> THEN 0 ELSE front[Len(front)])
                          + a[Len(a)])

\* --------------------------------------------------------------- flatten

\* the keys to_dataframe gives the coordinate columns
CoordinateColumns == {"t", "x", "y", "z", "profile", "distance"}

\* an empty-row mask that flags a row as soon as one data variable is invalid
building_index_to_drop_any(vdatas, n) ==
    [i \in 1..n |-> \E k \in DOMAIN vdatas : vdatas[k][i].mask]

\* an empty-row mask that starts all-false
building_index_to_drop_none(vdatas, n) == [i \in 1..n |-> FALSE]

\* np.ones(t.size), and-ed with the mask of every data variable in turn
building_index_to_drop(vdatas, n) ==
    [i \in 1..n |-> \A k \in DOMAIN vdatas : vdatas[k][i].mask]

\* ids that count from 1
range_from_one(n) == [i \in 1..n |-> Num(i)]

\* np.asarray(list(range(len(pvar)))): the ids 0..n-1
range(n) == [i \in 1..n |-> Num(i - 1)]

\* the table before pruning, and the empty-row mask (drop)
to_dataframe_build(ds) ==
    LET pvar == ds.pvars[1]
        p_name == pvar.dimensions[1]
        ps == ds.dimensions[p_name]
        zvar == ds.z_axes[1]
        z_name == SelectSeq(zvar.dimensions, LAMBDA dn : dn # p_name)[1]
        zs == ds.dimensions[z_name]
        \* astype(int) raises ValueError on text that is no number
        p0 == IF \A i \in DOMAIN pvar.data : pvar.data[i].num
              THEN pvar.data
              ELSE range(ps)
        p == repeat(p0, zs)
        z == round(zvar.data, Decimals5)
        t == repeat(ds.t_axes[1].data, zs)
        x == round(repeat(ds.x_axes[1].data, zs), Decimals5)
        y == round(repeat(ds.y_axes[1].data, zs), Decimals5)
        steps == <<0>> \o [i \in 1..(Len(x) - 1) |->
                            great_distance(y[i], x[i], y[i + 1], x[i + 1])]
        sums == cumsum(steps)
        dist == [i \in DOMAIN sums |-> Num(RoundTo(sums[i], Decimals2))]
        vdata(k) == round(ds.datavars[k].data, Decimals3)
        names == CoordinateColumns
                   \cup {ds.datavars[k].name : k \in DOMAIN ds.datavars}
        \* a later assignment to the same key of df_data replaces the earlier
        column(n) ==
            IF \E k \in DOMAIN ds.datavars : ds.datavars[k].name = n
            THEN vdata(CHOOSE k \in DOMAIN ds.datavars :
                         /\ ds.datavars[k].name = n
                         /\ \A j \in DOMAIN ds.datavars :
                              ds.datavars[j].name = n => j <= k)
            ELSE IF n = "t" THEN t
            ELSE IF n = "x" THEN x
            ELSE IF n = "y" THEN y
            ELSE IF n = "z" THEN z
            ELSE IF n = "profile" THEN p
            ELSE dist
        data == [n \in names |-> column(n)]
        sizes_agree == \A n \in names : Len(data[n]) = Len(t)
        vdatas == [k \in DOMAIN ds.datavars |-> vdata(k)]
    IN IF sizes_agree
       THEN [exc |-> "none", data |-> data,
             drop |-> building_index_to_drop(vdatas, Len(t))]
       ELSE [exc |-> "ValueError", data |-> [n \in {} |-> <<>>],
             drop |-> <<>>]

\* a column pruning that keeps every column
dropna_columns_none(data) == DOMAIN data

\* DataFrame.dropna(axis=1, how='all'): the columns kept
dropna_columns(data) ==
    {n \in DOMAIN data : \E i \in DOMAIN data[n] : ~data[n][i].mask}

\* DataFrame.iloc[~building_index_to_drop]: the row positions kept, in order
iloc_rows(index) ==
    SelectSeq([i \in DOMAIN index |-> i], LAMBDA i : ~index[i])

\* IncompleteMultidimensionalProfile.to_dataframe
to_dataframe(ds, clean_cols, clean_rows) ==
    LET built == to_dataframe_build(ds)
        kept_cols == IF clean_cols THEN dropna_columns(built.data)
                     ELSE DOMAIN built.data
        all_rows == [i \in DOMAIN built.drop |-> i]
        kept_rows == IF clean_rows THEN iloc_rows(built.drop)
                     ELSE all_rows
    IN IF built.exc # "none"
       THEN [exc |-> built.exc, clean_cols |-> clean_cols,
             clean_rows |-> clean_rows, rows |-> <<>>,
             data |-> [n \in {} |-> <<>>]]
       ELSE [exc |-> "none", clean_cols |-> clean_cols,
             clean_rows |-> clean_rows,
             \* rows: for each row of the result, its row in the unpruned table
             rows |-> kept_rows,
             data |-> [n \in kept_cols |->
                         [i \in DOMAIN kept_rows |-> built.data[n][kept_rows[i]]]]]

\* ------------------------------------------------------------ the machine

NoDict == [set |-> FALSE,
           naming_authority |-> <<>>, station_identifier |-> <<>>,
           standard_name |-> <<>>, name |-> <<>>, discriminant |-> <<>>,
           cell_methods |-> <<>>, bounds |-> <<>>, vertical_datum |-> <<>>,
           interval |-> [kind |-> "none", items |-> <<>>]]
NoUrn == [exc |-> "unset", urn |-> <<>>, calls |-> 0, again |-> <<>>]
NoDecoded == [exc |-> "unset", combine_interval |-> FALSE, d |-> [k \in {} |-> <<>>]]
NoMeta == [exc |-> "unset"]
NoScan == [done |-> FALSE, entries |-> <<>>, cm |-> <<>>,
           keys |-> <<>>, values |-> <<>>]


NoDf == [exc |-> "unset", clean_cols |-> FALSE, clean_rows |-> FALSE,
         rows |-> <<>>, data |-> [n \in {} |-> <<>>]]
NoDataset == [featureType |-> NoAttr,
              dimensions |-> [n \in {} |-> 0],
              pvars |-> <<>>, rvars |-> <<>>,
              t_axes |-> <<>>, x_axes |-> <<>>, y_axes |-> <<>>,
              z_axes |-> <<>>, datavars |-> <<>>,
              sample_dimension_vars |-> 0, instance_dimension_vars |-> 0]

\* names of the data variables of a generated dataset
VarNames == <<"temperature", "salinity", "humidity", "pressure">>

\* raw values, in units of 10^-6, that rounding changes
RawZ(i) == i * 1000000 + (IF i % 2 = 1 THEN 4 ELSE 6)
RawVal(k, i) == (k * 100 + i) * 1000000 + (IF i % 2 = 1 THEN 400 ELSE 600)

\* (time, longitude, latitude) of one profile
Stations == {[t |-> 1, x |-> 1000004, y |-> 5000004],
             [t |-> 2, x |-> 2000006, y |-> 5000004]}

\* masks of the vertical axis: nothing, everything, or the first cell invalid
ZMasks(n) == {[i \in 1..n |-> FALSE], [i \in 1..n |-> TRUE],
              [i \in 1..n |-> i = 1]}

\* a ProfileGrid dataset: P profiles, Z levels, nv data variables stored
\* (profile, z), ids numeric or text, and the masks of the arrays
ProfileGrid(P, Z, nv, numeric, st, zmask, vmask) ==
    [featureType |-> Attr(STR_profile),
     dimensions |-> [n \in {"profile", "z"} |-> IF n = "profile" THEN P ELSE Z],
     pvars |-> << DataVar("profile", IF numeric THEN "i4" ELSE "str",
                          <<"profile">>,
                          [i \in 1..P |-> IF numeric THEN Num(100 + i)
                                          ELSE Text(i)]) >>,
     rvars |-> <<>>,
     t_axes |-> << DataVar("time", "f8", <<"profile">>,
                           [i \in 1..P |-> Num(st[i].t)]) >>,
     x_axes |-> << DataVar("lon", "f8", <<"profile">>,
                           [i \in 1..P |-> Num(st[i].x)]) >>,
     y_axes |-> << DataVar("lat", "f8", <<"profile">>,
                           [i \in 1..P |-> Num(st[i].y)]) >>,
     z_axes |-> << DataVar("depth", "f8", <<"profile", "z">>,
                           [i \in 1..(P * Z) |->
                              IF zmask[i] THEN Masked ELSE Num(RawZ(i))]) >>,
     datavars |-> [k \in 1..nv |->
                     DataVar(VarNames[k], "f8", <<"profile", "z">>,
                             [i \in 1..(P * Z) |->
                                IF vmask[k][i] THEN Masked
                                ELSE Num(RawVal(k, i))])],
     sample_dimension_vars |-> 0,
     instance_dimension_vars |-> 0]

InitFlatten ==
    /\ \E P \in 1..MaxP, Z \in 1..MaxZ, nv \in 0..MaxVars, numeric \in BOOLEAN :
         /\ P * Z <= MaxCells
         /\ nv * P * Z <= MaxDataCells
         /\ \E st \in [1..P -> Stations], zmask \in ZMasks(P * Z),
               vmask \in [1..nv -> [1..(P * Z) -> BOOLEAN]] :
              dsg = ProfileGrid(P, Z, nv, numeric, st, zmask, vmask)
    /\ mine = "unset"
    /\ ts_mine = "unset"
    /\ df = NoDf
    /\ data_dict = NoDict
    /\ urn = NoUrn
    /\ decoded = NoDecoded
    /\ meta = NoMeta
    /\ scanned = NoScan

\* a call of to_dataframe(clean_cols, clean_rows) on the dataset
ToDataframe(clean_cols, clean_rows) ==
    /\ df = NoDf
    /\ df' = to_dataframe(dsg, clean_cols, clean_rows)
    /\ UNCHANGED <<dsg, mine, ts_mine, data_dict, urn, decoded, meta, scanned>>

NextFlatten ==
    \E clean_cols \in BOOLEAN, clean_rows \in BOOLEAN :
        ToDataframe(clean_cols, clean_rows)

SpecFlatten == InitFlatten /\ [][NextFlatten]_vars

\* ------------------------------------------------------- flatten: claims

FlatP == dsg.dimensions["profile"]
FlatZ == dsg.dimensions["z"]
DataNames == {dsg.datavars[k].name : k \in DOMAIN dsg.datavars}
\* the data variable named c
DataVarNamed(c) == dsg.datavars[CHOOSE k \in DOMAIN dsg.datavars :
                                  dsg.datavars[k].name = c]
\* the value a cell has in the table: masked, or rounded to q
Shown(cell, q) == IF cell.mask THEN cell ELSE Num(RoundTo(cell.v, q))

\* C1: with both pruning flags off the table has exactly P*Z rows, and row k
\* (0-based) carries the instance id, time, longitude and latitude of profile
\* k div Z and the vertical and data values of grid cell (k div Z, k mod Z);
\* the instance column is constant in each block of Z rows.
C1_FlattenOrder ==
    (df.exc = "none" /\ ~df.clean_cols /\ ~df.clean_rows) =>
        LET n == FlatP * FlatZ
            pvar == dsg.pvars[1]
            prof(k) == (k \div FlatZ) + 1
            cell(k) == (k \div FlatZ) * FlatZ + (k % FlatZ) + 1
        IN /\ DOMAIN df.data = CoordinateColumns \cup DataNames
           /\ \A c \in DOMAIN df.data : Len(df.data[c]) = n
           /\ df.rows = [k \in 1..n |-> k]
           /\ \A k \in 0..(n - 1) :
                /\ df.data["profile"][k + 1] =
                     (IF pvar.data[prof(k)].num THEN pvar.data[prof(k)]
                      ELSE Num(prof(k) - 1))
                /\ df.data["t"][k + 1] = dsg.t_axes[1].data[prof(k)]
                /\ df.data["x"][k + 1] =
                     Shown(dsg.x_axes[1].data[prof(k)], Decimals5)
                /\ df.data["y"][k + 1] =
                     Shown(dsg.y_axes[1].data[prof(k)], Decimals5)
                /\ df.data["z"][k + 1] =
                     Shown(dsg.z_axes[1].data[cell(k)], Decimals5)
                /\ \A c \in DataNames :
                     df.data[c][k + 1] =
                       Shown(DataVarNamed(c).data[cell(k)], Decimals3)
           /\ \A j, k \in 0..(n - 1) :
                (j \div FlatZ) = (k \div FlatZ) =>
                    df.data["profile"][j + 1] = df.data["profile"][k + 1]

\* C1's case: two profiles of two levels with a data variable, flags off
C1_Witness ==
    /\ df.exc = "none" /\ ~df.clean_cols /\ ~df.clean_rows
    /\ FlatP = 2 /\ FlatZ = 2 /\ Len(dsg.datavars) >= 1
    /\ Len(df.data["profile"]) = 4
    /\ df.data["profile"][2] # df.data["profile"][3]

\* row k of the unpruned table has a valid value of some data variable
RowHasData(k) ==
    \E v \in DOMAIN dsg.datavars : ~dsg.datavars[v].data[k].mask

\* C2: with drop_empty_rows the rows removed are exactly those in which every
\* data variable is invalid; the rows kept keep their order and their values.
C2_EmptyRowsDropped ==
    (df.exc = "none" /\ df.clean_rows) =>
        LET n == FlatP * FlatZ
            unpruned == to_dataframe(dsg, df.clean_cols, FALSE)
        IN /\ \A k \in 1..n :
                RowHasData(k) <=> (\E i \in DOMAIN df.rows : df.rows[i] = k)
           /\ \A i, j \in DOMAIN df.rows : i < j => df.rows[i] < df.rows[j]
           /\ DOMAIN df.data = DOMAIN unpruned.data
           /\ \A c \in DOMAIN df.data :
                /\ Len(df.data[c]) = Len(df.rows)
                /\ \A i \in DOMAIN df.rows :
                     df.data[c][i] = unpruned.data[c][df.rows[i]]

\* C2's case: a row with one valid and one invalid data value is kept after
\* a row without any valid data value was removed
C2_Witness ==
    /\ df.exc = "none" /\ df.clean_rows
    /\ Len(dsg.datavars) = 2
    /\ \E k \in 2..(FlatP * FlatZ) :
         /\ ~RowHasData(k - 1)
         /\ ~dsg.datavars[1].data[k].mask
         /\ dsg.datavars[2].data[k].mask
         /\ df.rows[1] = k

\* C3: with drop_empty_columns only a data-variable column that is invalid in
\* every row is removed; the six coordinate columns are always in the table.
C3_CoordinateColumnsKept ==
    (df.exc = "none" /\ df.clean_cols) =>
        /\ CoordinateColumns \subseteq DOMAIN df.data
        /\ \A c \in DataNames :
             c \notin DOMAIN df.data =>
               \A i \in DOMAIN DataVarNamed(c).data : DataVarNamed(c).data[i].mask

\* ------------------------------------------------ classification: inputs

\* the dimensions of a dataset handed to the classifiers
ClassifyDimensions ==
    [n \in {"profile", "z", "strlen", "other"} |->
        IF n = "profile" THEN 2
        ELSE IF n = "z" THEN 3
        ELSE IF n = "strlen" THEN 2
        ELSE 1]

\* the global featureType attribute: absent, or one of these texts
FeatureTypes ==
    {NoAttr,
     Attr(<<"p","r","o","f","i","l","e">>),
     Attr(<<"P","r","o","f","i","l","e">>),
     Attr(<<"t","i","m","e","S","e","r","i","e","s">>),
     Attr(<<"t","i","m","e","s","e","r","i","e","s">>),
     Attr(<<"p","o","i","n","t">>)}

\* count variables of one structure, named names[1], names[2], ...
Copies(count, names, dtype, dimensions) ==
    [i \in 1..count |-> Var(names[i], dtype, dimensions)]

\* dimension lists of an identifier variable, of rank 0 to 3
IdDimensions == {<<>>, <<"profile">>, <<"profile", "strlen">>,
                 <<"profile", "strlen", "other">>}
\* dimension lists of the time, x and y axes
AxisDimensions == {<<"profile">>, <<"profile", "strlen">>, <<"z">>}
\* dimension lists of the vertical axis and of a data variable
GridDimensions == {<<"profile", "z">>, <<"z", "profile">>, <<"profile">>,
                   <<"profile", "z", "other">>, <<"profile", "strlen">>}
\* how many time, x, y and z axes a dataset has: one of each, or one kind
\* missing, or one kind twice
AxisCounts ==
    {c \in [{"t", "x", "y", "z"} -> 0..2] :
        Cardinality({k \in DOMAIN c : c[k] # 1}) <= 1}

\* a dataset for the profile classifier
ProfileDataset(nP, ft, c, dtype, pdims, tdims, xydims, zdims, dvs) ==
    [featureType |-> ft,
     dimensions |-> ClassifyDimensions,
     pvars |-> Copies(nP, <<"profile", "profile_2">>, dtype, pdims),
     rvars |-> <<>>,
     t_axes |-> Copies(c["t"], <<"time", "time_2">>, "f8", tdims),
     x_axes |-> Copies(c["x"], <<"lon", "lon_2">>, "f8", xydims),
     y_axes |-> Copies(c["y"], <<"lat", "lat_2">>, "f8", xydims),
     z_axes |-> Copies(c["z"], <<"depth", "depth_2">>, "f8", zdims),
     datavars |-> dvs,
     sample_dimension_vars |-> 0,
     instance_dimension_vars |-> 0]

\* a dataset for the timeseries classifier
TimeseriesDataset(nR, ft, rdims, nt, nx, ny, tdims, ns, ni) ==
    [featureType |-> ft,
     dimensions |-> ClassifyDimensions,
     pvars |-> <<>>,
     rvars |-> Copies(nR, <<"station", "station_2">>, "i4", rdims),
     t_axes |-> Copies(nt, <<"time", "time_2">>, "f8", tdims),
     x_axes |-> Copies(nx, <<"lon", "lon_2">>, "f8", <<"profile">>),
     y_axes |-> Copies(ny, <<"lat", "lat_2">>, "f8", <<"profile">>),
     z_axes |-> <<>>,
     datavars |-> <<>>,
     sample_dimension_vars |-> ns,
     instance_dimension_vars |-> ni]

\* how many of the profile classifier's first checks (the number of
\* profile_id variables, the feature type, the axis counts) fail
GateFailures(nP, ft, c) ==
    (IF nP # 1 THEN 1 ELSE 0)
    + (IF ft.has /\ lower(ft.value) = STR_profile THEN 0 ELSE 1)
    + (IF \A k \in DOMAIN c : c[k] = 1 THEN 0 ELSE 1)

\* datasets for the profile classifier in which at most one of its first
\* checks fails, with every structure of the variables
InitProfileFamily ==
    \E nP \in 0..2, ft \in FeatureTypes, c \in AxisCounts :
       /\ GateFailures(nP, ft, c) <= 1
       /\ \E dtype \in {"i4", "S1"}, pdims \in IdDimensions,
             tdims \in AxisDimensions, xydims \in AxisDimensions,
             zdims \in GridDimensions,
             dvs \in {<<>>} \cup {<<Var("temperature", "f8", g)>> :
                                    g \in GridDimensions} :
            dsg = ProfileDataset(nP, ft, c, dtype, pdims, tdims, xydims,
                                 zdims, dvs)

\* datasets for the timeseries classifier
InitTimeseriesFamily ==
    \E nR \in 0..2, ft \in FeatureTypes, rdims \in IdDimensions,
       nt \in 0..2, nx \in 0..1, ny \in 0..1,
       tdims \in {<<"profile">>, <<"profile", "z">>,
                  <<"profile", "z", "other">>},
       ns \in 0..1, ni \in 0..1 :
         dsg = TimeseriesDataset(nR, ft, rdims, nt, nx, ny, tdims, ns, ni)

\* datasets with one profile_id variable and one timeseries_id variable, one
\* axis of each kind, and every feature type
InitBothFamily ==
    \E ft \in FeatureTypes,
       pdims \in {<<"profile">>, <<"profile", "strlen">>},
       tdims \in AxisDimensions, zdims \in GridDimensions,
       rdims \in IdDimensions :
         dsg = [ProfileDataset(1, ft, [k \in {"t", "x", "y", "z"} |-> 1],
                               "i4", pdims, tdims, pdims, zdims, <<>>)
                   EXCEPT !.rvars = Copies(1, <<"station">>, "i4", rdims)]

InitClassify ==
    /\ (InitProfileFamily \/ InitTimeseriesFamily \/ InitBothFamily)
    /\ mine = "unset"
    /\ ts_mine = "unset"
    /\ df = NoDf
    /\ data_dict = NoDict
    /\ urn = NoUrn
    /\ decoded = NoDecoded
    /\ meta = NoMeta
    /\ scanned = NoScan

\* a call of IncompleteMultidimensionalProfile.is_mine(dsg)
ProfileIsMine ==
    /\ mine = "unset"
    /\ mine' = Profile_is_mine(dsg)
    /\ UNCHANGED <<dsg, ts_mine, df, data_dict, urn, decoded, meta, scanned>>

\* a call of IncompleteMultidimensionalTimeseries.is_mine(dsg)
TimeseriesIsMine ==
    /\ ts_mine = "unset"
    /\ ts_mine' = Timeseries_is_mine(dsg)
    /\ UNCHANGED <<dsg, mine, df, data_dict, urn, decoded, meta, scanned>>

NextClassify == ProfileIsMine \/ TimeseriesIsMine

SpecClassify == InitClassify /\ [][NextClassify]_vars

\* ------------------------------------------------ classification: claims

\* s is one of the sequence's elements
Among(s, seq) == \E i \in DOMAIN seq : seq[i] = s

\* every profile criterion other than the vertical axis holds
ProfileCriteriaButZ ==
    /\ Len(dsg.pvars) = 1
    /\ dsg.featureType.has /\ lower(dsg.featureType.value) = STR_profile
    /\ Len(dsg.t_axes) = 1 /\ Len(dsg.x_axes) = 1 /\ Len(dsg.y_axes) = 1
    /\ Len(dsg.pvars[1].dimensions) = 1
    /\ dsg.t_axes[1].dimensions = dsg.pvars[1].dimensions
    /\ dsg.x_axes[1].dimensions = dsg.pvars[1].dimensions
    /\ dsg.y_axes[1].dimensions = dsg.pvars[1].dimensions

\* C4: the profile classification returns match or no-match for every
\* dataset and lets no exception out; a dataset without a vertical axis is
\* no match.
C4_ProfileTotal ==
    mine # "unset" =>
        /\ mine \in {"match", "nomatch"}
        /\ Len(dsg.z_axes) = 0 => mine = "nomatch"

\* C4's cases: the vertical axis is missing while the other criteria hold,
\* or the feature type is not set on a dataset with one profile_id variable
C4_Witness ==
    /\ mine = "nomatch"
    /\ \/ Len(dsg.z_axes) = 0 /\ ProfileCriteriaButZ
       \/ Len(dsg.pvars) = 1 /\ ~dsg.featureType.has

\* C5: the timeseries classification never throws: every failed precondition,
\* an absent feature type included, gives no-match.
C5_TimeseriesTotal ==
    ts_mine # "unset" => ts_mine \in {"match", "nomatch"}

\* the profile dimension P and the level dimension Z of a dataset with one
\* profile_id variable and one vertical axis
P_name == dsg.pvars[1].dimensions[1]
HasZ_name == \E i \in DOMAIN dsg.z_axes[1].dimensions :
                dsg.z_axes[1].dimensions[i] # P_name
Z_name ==
    LET zd == dsg.z_axes[1].dimensions
    IN zd[CHOOSE i \in DOMAIN zd :
            /\ zd[i] # P_name
            /\ \A j \in DOMAIN zd : zd[j] # P_name => i <= j]

\* C6: a match only if the vertical axis and every data variable have exactly
\* 2 dimensions, P and Z among them, and size(P) x size(Z) elements; a
\* vertical axis without a dimension other than P is no match.
C6_GridShape ==
    /\ mine = "match" =>
         /\ HasZ_name
         /\ \A v \in {dsg.z_axes[1]} \cup {dsg.datavars[k] : k \in DOMAIN dsg.datavars} :
              /\ Len(v.dimensions) = 2
              /\ Among(P_name, v.dimensions)
              /\ Among(Z_name, v.dimensions)
              /\ size(dsg, v) = dsg.dimensions[P_name] * dsg.dimensions[Z_name]
    /\ (mine # "unset" /\ Len(dsg.pvars) = 1 /\ Len(dsg.z_axes) = 1
        /\ Len(dsg.pvars[1].dimensions) >= 1 /\ ~HasZ_name) => mine = "nomatch"

\* C6's case: a dataset with a data variable is matched
C6_Witness ==
    /\ mine = "match"
    /\ Len(dsg.datavars) = 1
    /\ dsg.datavars[1].dimensions = <<"z", "profile">>

\* the element type of the profile_id variable is a character array
Textual == dsg.pvars[1].dtype = "S1"

\* C7 as stated: a match only if the profile_id variable has exactly 1
\* dimension when its element type is not textual and exactly 2 when it is.
C7_IdRankExact ==
    mine = "match" =>
        Len(dsg.pvars[1].dimensions) = (IF Textual THEN 2 ELSE 1)

\* C7 amended: a match only if the profile_id variable has 1 or 2 dimensions
\* when its element type is not textual and 2 or 3 when it is.
C7_IdRankRange ==
    mine = "match" =>
        LET rank == Len(dsg.pvars[1].dimensions)
        IN IF Textual THEN rank \in {2, 3} ELSE rank \in {1, 2}

\* C7's cases: matches with a non-textual id of 2 dimensions
C7_Witness ==
    /\ mine = "match"
    /\ ~Textual
    /\ Len(dsg.pvars[1].dimensions) = 2

\* the conditions C8 lists for a timeseries match
TimeseriesConditions ==
    /\ Len(dsg.rvars) = 1
    /\ dsg.featureType.has /\ lower(dsg.featureType.value) = STR_timeseries
    /\ Len(dsg.t_axes) >= 1 /\ Len(dsg.x_axes) >= 1 /\ Len(dsg.y_axes) >= 1
    /\ dsg.sample_dimension_vars = 0
    /\ dsg.instance_dimension_vars = 0
    /\ Len(dsg.t_axes[1].dimensions) = 2
    /\ Len(dsg.rvars[1].dimensions) \in 0..2

\* C8: the timeseries classification returns match exactly when all the
\* listed conditions hold, and no-match when one of them is violated.
C8_TimeseriesExact ==
    ts_mine # "unset" =>
        /\ ts_mine = "match" <=> TimeseriesConditions
        /\ ~TimeseriesConditions => ts_mine = "nomatch"

\* ------------------------------------------------------------ text tools
\* An operator that uses an argument more than once first binds the argument
\* to its value (t \in {s}), so that the argument is evaluated once.

\* the characters of the texts handled, in code point order
CodePoints == <<" ", "#", "(", ")", ",", "-", "0", "1", "2", "3", "4", "5", "6", "7", "8", "9", ":", ";", "=",
               "A", "B", "C", "D", "E", "F", "G", "H", "I", "J", "K", "L", "M", "N", "O", "P", "Q", "R", "S", "T", "U", "V", "W", "X", "Y", "Z", "_",
               "a", "b", "c", "d", "e", "f", "g", "h", "i", "j", "k", "l", "m", "n", "o", "p", "q", "r", "s", "t", "u", "v", "w", "x", "y", "z">>

\* ord(c), up to an order-preserving renumbering
Ord(c) == CHOOSE i \in DOMAIN CodePoints : CodePoints[i] = c

\* a < b on text: the first differing character decides, a proper prefix is
\* smaller
RECURSIVE TextLess(_, _)
TextLess(a, b) ==
    \E s \in {a}, t \in {b} :
        IF t = <<>> THEN FALSE
        ELSE IF s = <<>> THEN TRUE
        ELSE IF Head(s) = Head(t) THEN TextLess(Tail(s), Tail(t))
        ELSE Ord(Head(s)) < Ord(Head(t))

\* c in s, for a character c
Contains(s, c) == \E t \in {s} : \E i \in DOMAIN t : t[i] = c

\* the index of the first c in s
Find(s, c) == CHOOSE i \in DOMAIN s : s[i] = c /\ \A j \in 1..(i - 1) : s[j] # c

RECURSIVE split(_, _)
\* str.split(c) for a one-character separator
split(s, c) ==
    CHOOSE parts \in
        {IF ~Contains(t, c) THEN <<t>>
         ELSE <<SubSeq(t, 1, Find(t, c) - 1)>>
              \o split(SubSeq(t, Find(t, c) + 1, Len(t)), c) : t \in {s}} : TRUE

RECURSIVE Interleave(_, _)
\* new before every character of s, and after the last
Interleave(s, new) ==
    CHOOSE text \in
        {IF t = <<>> THEN new
         ELSE new \o <<Head(t)>> \o Interleave(Tail(t), new) : t \in {s}} : TRUE

RECURSIVE replace(_, _, _)
\* str.replace(old, new): the occurrences of old from the left, not overlapping
replace(s, old, new) ==
    CHOOSE text \in
        {IF o = <<>> THEN Interleave(t, new)
         ELSE IF Len(t) < Len(o) THEN t
         ELSE IF SubSeq(t, 1, Len(o)) = o
              THEN new \o replace(SubSeq(t, Len(o) + 1, Len(t)), o, new)
         ELSE <<Head(t)>> \o replace(Tail(t), o, new) :
            t \in {s}, o \in {old}} : TRUE

RECURSIVE lstrip(_)
lstrip(s) ==
    CHOOSE text \in
        {IF t # <<>> /\ Head(t) = " " THEN lstrip(Tail(t)) ELSE t :
            t \in {s}} : TRUE

RECURSIVE rstrip(_)
rstrip(s) ==
    CHOOSE text \in
        {IF t # <<>> /\ t[Len(t)] = " "
         THEN rstrip(SubSeq(t, 1, Len(t) - 1)) ELSE t : t \in {s}} : TRUE

\* str.strip()
strip(s) == rstrip(lstrip(s))

RECURSIVE join(_, _)
\* sep.join(items)
join(sep, items) ==
    CHOOSE text \in
        {IF t = <<>> THEN <<>>
         ELSE IF Len(t) = 1 THEN t[1]
         ELSE t[1] \o sep \o join(sep, Tail(t)) : t \in {items}} : TRUE

\* the elements of a sequence
Range(seq) == UNION {{t[i] : i \in DOMAIN t} : t \in {seq}}

\* the orders in which the elements of a set can be listed
Orders(set) ==
    UNION {{seq \in [1..Cardinality(t) -> t] : Range(seq) = t} : t \in {set}}

\* ------------------------------------------------------------- the codec

TXT_interval == <<"i", "n", "t", "e", "r", "v", "a", "l">>
TXT_time == <<"t", "i", "m", "e">>
TXT_area == <<"a", "r", "e", "a">>
TXT_cell_methods == <<"c", "e", "l", "l", "_", "m", "e", "t", "h", "o", "d", "s">>
TXT_bounds == <<"b", "o", "u", "n", "d", "s">>
TXT_vertical_datum == <<"v", "e", "r", "t", "i", "c", "a", "l", "_", "d", "a", "t", "u", "m">>
TXT_standard_name == <<"s", "t", "a", "n", "d", "a", "r", "d", "_", "n", "a", "m", "e">>
TXT_discriminant == <<"d", "i", "s", "c", "r", "i", "m", "i", "n", "a", "n", "t">>
TXT_sensor == <<"s", "e", "n", "s", "o", "r">>
TXT_urn == <<"u", "r", "n">>
TXT_ioos == <<"i", "o", "o", "s">>

\* clean_value
clean_value(v) ==
    replace(strip(replace(replace(v, <<"(">>, <<>>), <<")">>, <<>>)),
            <<" ">>, <<"_">>)

\* the index of the last " " of cm before index i (the loop over
\* reversed(range(0, i)) stops there)
LastSpace(cm, i) ==
    CHOOSE j \in 1..(i - 1) :
        /\ cm[j] = " "
        /\ \A k \in (j + 1)..(i - 1) : cm[k] # " "

\* the keys, the values and sofar after the character cm[i]
scan_char(cm, i, keys, values, sofar) ==
    IF cm[i] = ":"
    THEN IF Len(keys) = Len(values)
         THEN [keys |-> Append(keys, clean_value(sofar)), values |-> values,
               sofar |-> <<>>]
         ELSE IF \E j \in 1..(i - 1) : cm[j] = " "
         THEN CHOOSE after \in
                  {[keys |-> Append(keys, key),
                    values |-> Append(values,
                                      clean_value(replace(sofar, key, <<>>))),
                    sofar |-> <<>>] :
                     key \in {clean_value(SubSeq(cm, LastSpace(cm, i) + 1,
                                                 i - 1))}} : TRUE
         ELSE [keys |-> keys, values |-> values, sofar |-> <<>>]
    ELSE [keys |-> keys, values |-> values, sofar |-> Append(sofar, cm[i])]

RECURSIVE scan(_, _, _, _, _)
\* the loop over the characters of cell_methods, from character i on, and
\* the append after it: the keys and the values found
scan(cm, i, keys, values, sofar) ==
    IF i > Len(cm)
    THEN [keys |-> keys, values |-> Append(values, clean_value(sofar))]
    ELSE CHOOSE found \in
             {scan(c, n, after.keys, after.values, after.sofar) :
                 c \in {cm}, n \in {i + 1},
                 after \in {scan_char(cm, i, keys, values, sofar)}} : TRUE

\* zip(keys, values)
zip(keys, values) ==
    [i \in 1..(IF Len(keys) <= Len(values) THEN Len(keys) ELSE Len(values)) |->
        <<keys[i], values[i]>>]

\* a < b on (key, value) pairs
PairLess(a, b) ==
    \/ TextLess(a[1], b[1])
    \/ a[1] = b[1] /\ TextLess(a[2], b[2])

\* the pairs as they are, not sorted
sorted_none(pairs) == pairs

RECURSIVE sorted(_)
\* sorted(pairs)
sorted(pairs) ==
    CHOOSE ordered \in
        {IF p = <<>> THEN <<>>
         ELSE (CHOOSE rest \in
                  {<<p[m]>>
                   \o sorted(SubSeq(p, 1, m - 1) \o SubSeq(p, m + 1, Len(p))) :
                      m \in {CHOOSE i \in DOMAIN p :
                                /\ \A j \in DOMAIN p : ~PairLess(p[j], p[i])
                                /\ \A j \in 1..(i - 1) : p[j] # p[i]}} : TRUE) :
            p \in {pairs}} : TRUE

RECURSIVE groupby(_)
\* itertools.groupby(pairs, lambda x: x[0]): the runs of pairs of equal key
groupby(pairs) ==
    CHOOSE groups \in
        {IF p = <<>> THEN <<>>
         ELSE (CHOOSE rest \in
                  {<<[group |-> p[1][1], members |-> SubSeq(p, 1, n)]>>
                   \o groupby(SubSeq(p, n + 1, Len(p))) :
                      n \in {CHOOSE n \in DOMAIN p :
                                /\ \A i \in 1..n : p[i][1] = p[1][1]
                                /\ n < Len(p) => p[n + 1][1] # p[1][1]}} : TRUE) :
            p \in {pairs}} : TRUE

\* mems and cell_intervals after one group of the loop over the groups
group_step(g, mems, cell_intervals) ==
    IF g.group = TXT_interval
    THEN [mems |-> mems,
          cell_intervals |-> [i \in DOMAIN g.members |-> g.members[i][2]]]
    ELSE IF g.group \in {TXT_time, TXT_area}
    THEN [mems |-> Append(mems,
                          join(<<",">>,
                               [i \in DOMAIN g.members |->
                                  g.group \o <<":">> \o g.members[i][2]])),
          cell_intervals |-> cell_intervals]
    ELSE [mems |-> mems, cell_intervals |-> cell_intervals]

RECURSIVE CellMethodGroups(_, _, _)
\* the loop over the groups: mems and cell_intervals
CellMethodGroups(groups, mems, cell_intervals) ==
    IF groups = <<>> THEN [mems |-> mems, cell_intervals |-> cell_intervals]
    ELSE CHOOSE grouped \in
             {CellMethodGroups(rest, after.mems, after.cell_intervals) :
                 rest \in {Tail(groups)},
                 after \in {group_step(Head(groups), mems, cell_intervals)}} :
             TRUE

\* the (key, value) pairs the scan finds in a cell_methods text
CellMethodPairs(cm) ==
    CHOOSE pairs \in
        {zip(found.keys, found.values) :
            found \in {scan(cm, 1, <<>>, <<>>, <<>>)}} : TRUE

\* mems and cell_intervals of the record's cell_methods (none when the record
\* has no cell_methods)
CellMethodSummary(dd) ==
    IF dd.cell_methods # <<>>
    THEN CHOOSE grouped \in
             {CellMethodGroups(groups, <<>>, <<>>) :
                 groups \in {groupby(sorted(CellMethodPairs(dd.cell_methods)))}} :
             TRUE
    ELSE [mems |-> <<>>, cell_intervals |-> <<>>]

\* the lower-cased random.choice results the encoder may draw for a name
RandomNames == {<<"a", "b", "c", "d", "e", "f", "g", "h">>,
                <<"q", "w", "e", "r", "t", "y", "u", "i">>}

\* IoosUrn(asset_type, authority, label, component, version=None).urn
IoosUrn_urn(asset_type, authority, label, component) ==
    TXT_urn \o <<":">> \o TXT_ioos \o <<":">> \o asset_type \o <<":">>
    \o authority \o <<":">> \o label \o <<":">> \o component

\* the extras of the record: cell_methods, bounds, vertical_datum, interval
Extras(dd, grouped, listed) ==
    CHOOSE extras \in
        {(IF g.mems # <<>>
          THEN <<TXT_cell_methods \o <<"=">> \o join(<<",">>, g.mems)>>
          ELSE <<>>)
         \o (IF dd.bounds # <<>>
             THEN <<TXT_bounds \o <<"=">> \o dd.bounds>> ELSE <<>>)
         \o (IF dd.vertical_datum # <<>>
             THEN <<TXT_vertical_datum \o <<"=">> \o dd.vertical_datum>>
             ELSE <<>>)
         \o (IF g.cell_intervals
                \o (IF dd.interval.kind \in {"list", "str"}
                    THEN dd.interval.items ELSE <<>>) # <<>>
             THEN <<TXT_interval \o <<"=">> \o join(<<",">>, listed)>>
             ELSE <<>>) :
            g \in {grouped}} : TRUE

\* variable_name with name preferred to standard_name
VariableName_name_first(dd, random) ==
    (IF dd.name # <<>> THEN dd.name
     ELSE IF dd.standard_name # <<>> THEN dd.standard_name
     ELSE random)
    \o (IF dd.discriminant # <<>> THEN <<"-">> \o dd.discriminant ELSE <<>>)

\* variable_name before the extras are appended
VariableName(dd, random) ==
    (IF dd.standard_name # <<>> THEN dd.standard_name
     ELSE IF dd.name # <<>> THEN dd.name
     ELSE random)
    \o (IF dd.discriminant # <<>> THEN <<"-">> \o dd.discriminant ELSE <<>>)

\* one run of urnify_from_dict: listed is the order list(set(intervals))
\* gives (applied to the distinct interval tokens), random is the name drawn
\* when the record has none
urnify_run(naming_authority, station_identifier, dd, listed, random) ==
    CHOOSE text \in
        {IoosUrn_urn(TXT_sensor, naming_authority, station_identifier,
                     IF extras # <<>>
                     THEN VariableName(dd, random) \o <<"#">>
                          \o join(<<";">>, extras)
                     ELSE VariableName(dd, random)) :
            extras \in {Extras(dd, CellMethodSummary(dd), listed)}} : TRUE

\* the interval tokens of a record, before they are made unique
IntervalTokens(dd) ==
    CellMethodSummary(dd).cell_intervals
    \o (IF dd.interval.kind \in {"list", "str"} THEN dd.interval.items ELSE <<>>)

\* urnify_from_dict: the identifiers a call can return (the order of a set's
\* elements and the random name are not determined by the arguments)
urnify_from_dict(naming_authority, station_identifier, dd) ==
    {urnify_run(naming_authority, station_identifier, dd, listed, random) :
        listed \in Orders(Range(IntervalTokens(dd))),
        random \in IF dd.standard_name = <<>> /\ dd.name = <<>>
                   THEN RandomNames ELSE {<<>>}}

\* IoosUrn.from_string: the fields between the colons; the component is all
\* that follows the station label
IoosUrn_from_string(text) ==
    CHOOSE ioos_urn \in
        {IF Len(parts) < 6 \/ parts[1] # TXT_urn \/ parts[2] # TXT_ioos
         THEN [exc |-> "StructuralParseError", valid |-> FALSE,
               asset_type |-> <<>>, authority |-> <<>>, label |-> <<>>,
               component |-> <<>>]
         ELSE [exc |-> "none", valid |-> TRUE,
               asset_type |-> parts[3], authority |-> parts[4],
               label |-> parts[5],
               component |-> join(<<":">>, SubSeq(parts, 6, Len(parts)))] :
            parts \in {split(text, ":")}} : TRUE

\* d[key] = value
Put(dict, key, value) ==
    CHOOSE after \in
        {[k \in DOMAIN d \cup {key} |-> IF k = key THEN v ELSE d[k]] :
            d \in {dict}, v \in {value}} : TRUE

\* the empty dict
EmptyDict == [k \in {} |-> <<>>]

\* x.replace('_', ' ').replace(':', ': ')
Respace(x) == replace(replace(x, <<"_">>, <<" ">>), <<":">>, <<":", " ">>)

\* ' (interval: {})'.format(i.upper())
IntervalSuffix(i) ==
    <<" ", "(">> \o TXT_interval \o <<":", " ">> \o upper(i) \o <<")">>

\* one section of extras.split(';'): st is [exc, d, intervals, cell_methods]
section_step(section, st) ==
    CHOOSE after \in
        {IF Len(kv) # 2
         THEN [st EXCEPT !.exc = "ValueError"]
         ELSE (CHOOSE stored \in
                  {IF kv[1] = TXT_interval
                   THEN [st EXCEPT !.intervals = @ \o values]
                   ELSE IF kv[1] = TXT_cell_methods
                   THEN [st EXCEPT !.cell_methods =
                             [i \in DOMAIN values |-> Respace(values[i])]]
                   ELSE [st EXCEPT !.d =
                             Put(@, kv[1],
                                 join(<<" ">>,
                                      [i \in DOMAIN values |->
                                         Respace(values[i])]))] :
                      values \in {split(kv[2], ",")}} : TRUE) :
            kv \in {split(section, "=")}} : TRUE

RECURSIVE Sections(_, _)
\* the loop over extras.split(';')
Sections(sections, st) ==
    CHOOSE done \in
        {IF s = <<>> \/ now.exc # "none" THEN now
         ELSE Sections(Tail(s), section_step(Head(s), now)) :
            s \in {sections}, now \in {st}} : TRUE

\* the cell_methods text of the dict when combine_interval is true
CombinedCellMethods(cell_methods, intervals) ==
    IF intervals # <<>> /\ Len(cell_methods) = Len(intervals)
    THEN join(<<" ">>, [i \in DOMAIN cell_methods |->
                          cell_methods[i] \o IntervalSuffix(intervals[i])])
    ELSE join(<<" ">>, cell_methods)
         \o join(<<>>, [i \in DOMAIN intervals |-> IntervalSuffix(intervals[i])])

\* d with the standard_name, and the discriminant when the component has a '-'
Named(component, standard_name) ==
    CHOOSE d \in
        {IF Contains(component, "-")
         THEN Put(Put(Put(EmptyDict, TXT_standard_name, standard_name),
                      TXT_discriminant, names[Len(names)]),
                  TXT_standard_name, names[1])
         ELSE Put(EmptyDict, TXT_standard_name, standard_name) :
            names \in {split(standard_name, "-")}} : TRUE

\* d after the loop: cell_methods and interval put in, vertical_datum
\* upper-cased
Finished(st, combine_interval) ==
    CHOOSE d \in
        {IF TXT_vertical_datum \in DOMAIN d2
         THEN Put(d2, TXT_vertical_datum, upper(d2[TXT_vertical_datum]))
         ELSE d2 :
            d2 \in {IF combine_interval
                    THEN IF st.cell_methods # <<>>
                         THEN Put(st.d, TXT_cell_methods,
                                  CombinedCellMethods(st.cell_methods,
                                                      st.intervals))
                         ELSE st.d
                    ELSE Put(Put(st.d, TXT_cell_methods,
                                 join(<<" ">>, st.cell_methods)),
                             TXT_interval,
                             upper(join(<<",">>, st.intervals)))}} : TRUE

\* dictify_urn from the component on: halves is component.split('#')
dictify_component(component, halves, combine_interval) ==
    IF Contains(component, "#") /\ Len(halves) # 2
    THEN [exc |-> "ValueError", d |-> EmptyDict]
    ELSE CHOOSE result \in
             {IF st.exc # "none" THEN [exc |-> st.exc, d |-> EmptyDict]
              ELSE IF /\ combine_interval
                      /\ st.cell_methods = <<>>
                      /\ st.intervals # <<>>
                   THEN [exc |-> "ValueError", d |-> EmptyDict]
              ELSE [exc |-> "none", d |-> Finished(st, combine_interval)] :
                 st \in {Sections(
                             IF Contains(component, "#") /\ halves[2] # <<>>
                             THEN split(halves[2], ";") ELSE <<>>,
                             [exc |-> "none",
                              d |-> Named(component,
                                          IF Contains(component, "#")
                                          THEN halves[1] ELSE component),
                              intervals |-> <<>>,
                              cell_methods |-> <<>>])}} : TRUE

\* dictify_urn without the test of the asset type
dictify_urn_any_asset(text, combine_interval) ==
    CHOOSE result \in
        {IF ioos_urn.exc # "none"
         THEN [exc |-> ioos_urn.exc, d |-> EmptyDict]
         ELSE IF ~ioos_urn.valid THEN [exc |-> "none", d |-> EmptyDict]
         ELSE (CHOOSE r \in
                  {dictify_component(ioos_urn.component, halves,
                                     combine_interval) :
                      halves \in {split(ioos_urn.component, "#")}} : TRUE) :
            ioos_urn \in {IoosUrn_from_string(text)}} : TRUE

\* dictify_urn: [exc, d]
dictify_urn(text, combine_interval) ==
    CHOOSE result \in
        {IF ioos_urn.exc # "none"
         THEN [exc |-> ioos_urn.exc, d |-> EmptyDict]
         ELSE IF ~ioos_urn.valid THEN [exc |-> "none", d |-> EmptyDict]
         ELSE IF ioos_urn.asset_type # TXT_sensor
              THEN [exc |-> "none", d |-> EmptyDict]
         ELSE (CHOOSE r \in
                  {dictify_component(ioos_urn.component, halves,
                                     combine_interval) :
                      halves \in {split(ioos_urn.component, "#")}} : TRUE) :
            ioos_urn \in {IoosUrn_from_string(text)}} : TRUE

\* ------------------------------------------------------ the codec: inputs

NamingAuthorities == {<<"a", "x">>}
StationIdentifiers == {<<"s", "1">>}
StandardNames == {<<>>,
                  <<"s", "s", "t">>,
                  <<"s", "_", "t">>}
Names == {<<>>,
          <<"n", "m">>}
Discriminants == {<<>>,
                  <<"2">>}
CellMethods == {<<>>,
                <<"t", "i", "m", "e", ":", " ", "m", "e", "a", "n">>,
                <<"t", "i", "m", "e", ":", " ", "m", "e", "a", "n", " ", "(", "i", "n", "t", "e", "r", "v", "a", "l", ":", " ", "P", "T", "1", "H", ")">>,
                <<"t", "i", "m", "e", ":", " ", "s", "_", "d", " ", "(", "i", "n", "t", "e", "r", "v", "a", "l", ":", " ", "P", "T", "1", "H", ")">>,
                <<"a", "r", "e", "a", ":", " ", "m", "a", "x", " ", "(", "i", "n", "t", "e", "r", "v", "a", "l", ":", " ", "p", "t", "1", "h", ")">>,
                <<"t", "i", "m", "e", ":", " ", "m", "e", "a", "n", " ", "(", "i", "n", "t", "e", "r", "v", "a", "l", ":", " ", "1", " ", "h", "r", ")">>,
                <<"t", "i", "m", "e", ":", " ", "v", "a", "r", " ", "t", "i", "m", "e", ":", " ", "m", "e", "a", "n", " ", "(", "i", "n", "t", "e", "r", "v", "a", "l", ":", " ", "P", "T", "1", "H", ")">>,
                <<"t", "i", "m", "e", ":", " ", "m", "e", "a", "n", " ", "a", "r", "e", "a", ":", " ", "m", "a", "x">>,
                <<"t", "i", "m", "e", ":", " ", "m", "e", "a", "n", " ", "d", "e", "p", "t", "h", ":", " ", "m", "a", "x">>}
Bounds == {<<>>,
           <<"b", "n", "d">>,
           <<"t", "_", "b">>,
           <<"a", "-", "b">>}
VerticalDatums == {<<>>,
                   <<"N", "A", "V", "D">>,
                   <<"n", "a", "v", "d">>}
Intervals == {[kind |-> "none", items |-> <<>>],
              [kind |-> "str", items |-> <<<<"P", "T", "1", "H">>>>],
              [kind |-> "str", items |-> <<<<"p", "t", "2", "h">>>>],
              [kind |-> "list", items |-> <<<<"P", "T", "1", "H">>, <<"P", "T", "2", "H">>>>]}

\* identifiers that do not come from urnify_from_dict
SuppliedUrns == {<<"u", "r", "n", ":", "i", "o", "o", "s", ":", "s", "t", "a", "t", "i", "o", "n", ":", "a", "x", ":", "s", "1", ":", "s", "s", "t">>,
                 <<"u", "r", "n", ":", "i", "o", "o", "s", ":", "s", "t", "a", "t", "i", "o", "n", ":", "a", "x", ":", "s", "1">>,
                 <<"u", "r", "n", ":", "i", "o", "o", "s", ":", "s", "e", "n", "s", "o", "r", ":", "a", "x", ":", "s", "1">>,
                 <<"s", "e", "n", "s", "o", "r", ":", "a", "x", ":", "s", "1", ":", "s", "s", "t">>,
                 <<"u", "r", "n", ":", "x", ":", "s", "e", "n", "s", "o", "r", ":", "a", "x", ":", "s", "1", ":", "s", "s", "t">>,
                 <<"u", "r", "n", ":", "i", "o", "o", "s", ":", "s", "e", "n", "s", "o", "r", ":", ":", "s", "1", ":", "s", "s", "t">>,
                 <<"u", "r", "n", ":", "i", "o", "o", "s", ":", "s", "e", "n", "s", "o", "r", ":", "z", "z", ":", ":", "s", "s", "t", "#", "b", "o", "u", "n", "d", "s", "=", "b">>,
                 <<"u", "r", "n", ":", "i", "o", "o", "s", ":", "n", "e", "t", "w", "o", "r", "k", ":", "a", "x", ":", "s", "1", ":", "s", "s", "t", "#", "i", "n", "t", "e", "r", "v", "a", "l", "=", "P", "T", "1", "H">>,
                 <<"u", "r", "n", ":", "i", "o", "o", "s", ":", "s", "e", "n", "s", "o", "r", ":", "a", "x", ":", "s", "1", ":", "s", "s", "t", "-", "2", "#", "c", "e", "l", "l", "_", "m", "e", "t", "h", "o", "d", "s", "=", "t", "i", "m", "e", ":", "m", "e", "a", "n", ";", "i", "n", "t", "e", "r", "v", "a", "l", "=", "p", "t", "1", "h">>,
                 <<"u", "r", "n", ":", "i", "o", "o", "s", ":", "s", "e", "n", "s", "o", "r", ":", "a", "x", ":", "s", "1", ":", "s", "s", "t", "#", "b", "o", "u", "n", "d", "s", "=", "a", "=", "b", ";", "v", "e", "r", "t", "i", "c", "a", "l", "_", "d", "a", "t", "u", "m", "=", "n", "a", "v", "d">>}

\* either a record to encode, or an identifier supplied from outside
InitCodec ==
    /\ \/ /\ data_dict \in
                [set : {TRUE},
                 naming_authority : NamingAuthorities,
                 station_identifier : StationIdentifiers,
                 standard_name : StandardNames, name : Names,
                 discriminant : Discriminants, cell_methods : CellMethods,
                 bounds : Bounds, vertical_datum : VerticalDatums,
                 interval : Intervals]
          /\ urn = NoUrn
       \/ /\ data_dict = NoDict
          /\ \E text \in SuppliedUrns :
                urn = [exc |-> "none", urn |-> text, calls |-> 0,
                       again |-> <<>>]
    /\ decoded = NoDecoded
    /\ dsg = NoDataset
    /\ mine = "unset"
    /\ ts_mine = "unset"
    /\ df = NoDf
    /\ meta = NoMeta
    /\ scanned = NoScan

\* a call of urnify_from_dict on the record
Urnify ==
    /\ urn = NoUrn
    /\ \E u \in urnify_from_dict(data_dict.naming_authority,
                                 data_dict.station_identifier, data_dict) :
          urn' = [exc |-> "none", urn |-> u, calls |-> 1, again |-> <<>>]
    /\ UNCHANGED <<dsg, mine, ts_mine, df, data_dict, decoded, meta, scanned>>

\* a second call of urnify_from_dict with the same arguments, made right
\* after the first
UrnifyAgain ==
    /\ urn.calls = 1
    /\ decoded = NoDecoded
    /\ \E u \in urnify_from_dict(data_dict.naming_authority,
                                 data_dict.station_identifier, data_dict) :
          urn' = [urn EXCEPT !.calls = 2, !.again = u]
    /\ UNCHANGED <<dsg, mine, ts_mine, df, data_dict, decoded, meta, scanned>>

\* a call of dictify_urn on the identifier urnify_from_dict returned, or on
\* the identifier supplied
DictifyUrn(combine_interval) ==
    /\ urn.exc = "none"
    /\ urn.calls < 2
    /\ decoded = NoDecoded
    /\ \E result \in {dictify_urn(urn.urn, combine_interval)} :
          decoded' = [exc |-> result.exc,
                      combine_interval |-> combine_interval,
                      d |-> result.d]
    /\ UNCHANGED <<dsg, mine, ts_mine, df, data_dict, urn, meta, scanned>>

NextCodec ==
    \/ Urnify
    \/ UrnifyAgain
    \/ \E combine_interval \in BOOLEAN : DictifyUrn(combine_interval)

SpecCodec == InitCodec /\ [][NextCodec]_vars

\* ------------------------------------------------------ the codec: claims

\* the record has a key in the decoded dict
Has(key) == key \in DOMAIN decoded.d

\* the methods and the interval tokens of the records with one entry
EntryDomains == {TXT_time, TXT_area}
EntryMethods == {<<"m", "e", "a", "n">>,
                 <<"s", "_", "d">>,
                 <<"m", "a", "x">>}
EntryTokens == {<<"P", "T", "1", "H">>,
                <<"p", "t", "1", "h">>,
                <<"p", "t", "2", "h">>,
                <<"1", " ", "h", "r">>}

\* "{domain}: {method}"
Entry(domain, method) == domain \o <<":", " ">> \o method

\* "{domain}: {method} (interval: {token})"
EntryWithInterval(domain, method, token) ==
    Entry(domain, method) \o <<" ", "(">> \o TXT_interval \o <<":", " ">>
    \o token \o <<")">>

\* the record has a standard_name, no discriminant, and the one entry
\* (domain, method) with the one interval token, written in the cell_methods
\* text or given under the interval key
OneEntryRecord(domain, method, token) ==
    /\ data_dict.standard_name # <<>>
    /\ data_dict.discriminant = <<>>
    /\ \/ /\ data_dict.cell_methods = EntryWithInterval(domain, method, token)
          /\ data_dict.interval.kind = "none"
       \/ /\ data_dict.cell_methods = Entry(domain, method)
          /\ data_dict.interval.kind = "str"
          /\ data_dict.interval.items = <<token>>

\* the record was encoded and the identifier decoded as dictify_urn does by
\* default (combine_interval=True)
Decoded == decoded.exc # "unset" /\ decoded.combine_interval

\* C9: for every record with a non-empty standard_name, no discriminant and
\* exactly one cell_methods entry (domain time or area) carrying one
\* matching interval, decoding the encoded identifier reproduces the same
\* standard_name, the same cell_methods domain and method, and the same
\* interval token.
C9_RoundTrip ==
    \A domain \in EntryDomains, method \in EntryMethods, token \in EntryTokens :
        Decoded /\ OneEntryRecord(domain, method, token)
        => /\ decoded.exc = "none"
           /\ Has(TXT_standard_name)
           /\ decoded.d[TXT_standard_name] = data_dict.standard_name
           /\ Has(TXT_cell_methods)
           /\ decoded.d[TXT_cell_methods]
                = EntryWithInterval(domain, method, token)

\* the (key, value) pairs of a cell_methods text other than its intervals,
\* and the interval tokens in it
MethodPairs(cm) ==
    {p \in Range(CellMethodPairs(cm)) : p[1] # TXT_interval}
IntervalsIn(cm) ==
    {p[2] : p \in {q \in Range(CellMethodPairs(cm)) : q[1] = TXT_interval}}

\* the record's cell_methods entries all have the domain time or area
RecordDomainsKnown ==
    \A p \in MethodPairs(data_dict.cell_methods) : p[1] \in EntryDomains

\* an optional text key of the record is reproduced: equal when given,
\* absent when not given
SameOptional(key, given) ==
    IF given = <<>> THEN ~Has(key)
    ELSE Has(key) /\ decoded.d[key] = given

\* the pairs and the interval tokens the decoded dict holds
DecodedMethodPairs ==
    IF Has(TXT_cell_methods) /\ decoded.d[TXT_cell_methods] # <<>>
    THEN MethodPairs(decoded.d[TXT_cell_methods]) ELSE {}
DecodedIntervals ==
    (IF Has(TXT_cell_methods) /\ decoded.d[TXT_cell_methods] # <<>>
     THEN IntervalsIn(decoded.d[TXT_cell_methods]) ELSE {})
    \cup (IF Has(TXT_interval) /\ decoded.d[TXT_interval] # <<>>
          THEN Range(split(decoded.d[TXT_interval], ",")) ELSE {})

\* C10: for every identifier urnify_from_dict produces from a record with a
\* non-empty standard_name, dictify_urn succeeds without raising and
\* reconstructs an equivalent record: the same standard_name, the same
\* discriminant (absent when none was given), the same bounds, the same
\* vertical_datum, the same cell_methods pairs and the same interval tokens.
C10_EncodeDecodeEquivalent ==
    Decoded /\ data_dict.standard_name # <<>> /\ RecordDomainsKnown
    => /\ decoded.exc = "none"
       /\ Has(TXT_standard_name)
       /\ decoded.d[TXT_standard_name] = data_dict.standard_name
       /\ SameOptional(TXT_discriminant, data_dict.discriminant)
       /\ SameOptional(TXT_bounds, data_dict.bounds)
       /\ SameOptional(TXT_vertical_datum, data_dict.vertical_datum)
       /\ DecodedMethodPairs
            = (IF data_dict.cell_methods # <<>>
               THEN MethodPairs(data_dict.cell_methods) ELSE {})
       /\ DecodedIntervals = Range(IntervalTokens(data_dict))

\* C11: urnify_from_dict on a record that has at least one interval token
\* but no cell_methods entries fails with a ValueError instead of returning
\* an identifier.
C11_IntervalAloneRejected ==
    /\ urn.exc # "unset"
    /\ data_dict.set
    /\ data_dict.cell_methods = <<>>
    /\ IntervalTokens(data_dict) # <<>>
    => urn.exc = "ValueError"

\* the name part of an identifier: what follows the station label, up to the
\* '#' of the extras
NamePart(text) ==
    LET fields == split(split(text, "#")[1], ":")
    IN join(<<":">>, SubSeq(fields, 6, Len(fields)))

\* the "-{discriminant}" the record asks for
DiscriminantSuffix ==
    IF data_dict.discriminant # <<>>
    THEN <<"-">> \o data_dict.discriminant ELSE <<>>

\* C12: urnify_from_dict never raises for a missing name; the name part of
\* the identifier is the base name, followed by '-' and the discriminant when
\* the discriminant is non-empty, where the base name is standard_name when
\* non-empty, otherwise name when non-empty, otherwise a placeholder of
\* exactly 8 lowercase letters.
C12_BaseName ==
    urn.exc # "unset" /\ data_dict.set
    => /\ urn.exc = "none"
       /\ LET n == NamePart(urn.urn)
              cut == Len(n) - Len(DiscriminantSuffix)
              base == SubSeq(n, 1, cut)
          IN /\ cut >= 0
             /\ SubSeq(n, cut + 1, Len(n)) = DiscriminantSuffix
             /\ IF data_dict.standard_name # <<>>
                THEN base = data_dict.standard_name
                ELSE IF data_dict.name # <<>>
                THEN base = data_dict.name
                ELSE /\ Len(base) = 8
                     /\ \A i \in DOMAIN base : base[i] \in Range(LowerAlphabet)

\* a record without standard_name and name, with a discriminant and extras,
\* was encoded
C12_Witness ==
    /\ urn.exc = "none"
    /\ data_dict.set
    /\ data_dict.standard_name = <<>>
    /\ data_dict.name = <<>>
    /\ data_dict.discriminant # <<>>
    /\ data_dict.bounds # <<>>
    /\ Len(NamePart(urn.urn)) = 8 + Len(DiscriminantSuffix)

\* the colon-delimited fields of the identifier decoded
Fields == split(urn.urn, ":")

\* the identifier lacks the urn:ioos: prefix or has fewer than the six fields
\* urn, ioos, asset type, authority, station, name
Malformed ==
    Len(Fields) < 6 \/ Fields[1] # TXT_urn \/ Fields[2] # TXT_ioos

C14_Deterministic ==
    /\ urn.calls = 2
    /\ data_dict.standard_name # <<>> \/ data_dict.name # <<>>
    => urn.again = urn.urn

\* ------------------------------------------------------------ the summary

\* the valid values of a column
ValidValues(col) == {col[i].v : i \in {j \in DOMAIN col : ~col[j].mask}}

\* Series.min() and Series.max(): over the valid values, NaN when none
series_min(col) ==
    CHOOSE m \in {IF vs = {} THEN Masked
                  ELSE Num(CHOOSE v \in vs : \A w \in vs : v <= w) :
                     vs \in {ValidValues(col)}} : TRUE
series_max(col) ==
    CHOOSE m \in {IF vs = {} THEN Masked
                  ELSE Num(CHOOSE v \in vs : \A w \in vs : v >= w) :
                     vs \in {ValidValues(col)}} : TRUE

\* the row positions of the table
RowsOf(data) == IF "t" \in DOMAIN data THEN DOMAIN data["t"] ELSE {}

\* df.groupby('profile'): the keys, and the rows of a key in table order
group_keys(data) == {data["profile"][i].v : i \in DOMAIN data["profile"]}

\* the rows of every key, whatever the key asked for
group_rows_all(data, pid) == [i \in DOMAIN data["profile"] |-> i]
group_rows(data, pid) ==
    SelectSeq([i \in DOMAIN data["profile"] |-> i],
              LAMBDA i : data["profile"][i].v = pid)

\* pgroup.sort_values('t').iloc[0]: sort_values sorts with kind='quicksort',
\* which does not keep the order of equal times, and puts NaN last; any row
\* of the smallest time can come first
first_row(rows, t) ==
    {rows[k] : k \in {k \in DOMAIN rows :
                        \A j \in DOMAIN rows :
                           t[rows[j]].mask
                           \/ (~t[rows[k]].mask
                               /\ t[rows[k]].v <= t[rows[j]].v)}}

\* the elements of a sequence without repetitions, in order of first
\* appearance
RECURSIVE unique_everseen(_)
unique_everseen(items) ==
    CHOOSE kept \in
        {IF it = <<>> THEN <<>>
         ELSE <<it[1]>>
              \o unique_everseen(SelectSeq(Tail(it), LAMBDA e : e # it[1])) :
            it \in {items}} : TRUE

RECURSIVE unique_justseen(_)
\* unique_justseen(iterable): the first element of every run of equal
\* consecutive elements (itertools.groupby, then next of each group)
unique_justseen(items) ==
    CHOOSE kept \in
        {IF it = <<>> THEN <<>>
         ELSE (CHOOSE rest \in
                  {<<it[1]>> \o unique_justseen(SubSeq(it, n + 1, Len(it))) :
                      n \in {CHOOSE n \in DOMAIN it :
                                /\ \A i \in 1..n : it[i] = it[1]
                                /\ n < Len(it) => it[n + 1] # it[1]}} : TRUE) :
            it \in {items}} : TRUE

\* Point(x, y), LineString(coords), None
Point(x, y) == [kind |-> "Point", coords |-> <<<<x.v, y.v>>>>]
LineString(coords) == [kind |-> "LineString", coords |-> coords]
None == [kind |-> "None", coords |-> <<>>]

\* the namedtuple Profile of one group whose sorted first row is row
Profile(data, rows, row) ==
    [min_z |-> series_min([i \in DOMAIN rows |-> data["z"][rows[i]]]),
     max_z |-> series_max([i \in DOMAIN rows |-> data["z"][rows[i]]]),
     t |-> data["t"][row],
     x |-> data["x"][row],
     y |-> data["y"][row],
     loc |-> Point(data["x"][row], data["y"][row])]

\* the exception the loop over the groups raises, "none" when it raises none
ProfilesRaise(data) ==
    IF "profile" \notin DOMAIN data THEN "KeyError"
    ELSE IF group_keys(data) = {} THEN "none"
    ELSE IF "t" \notin DOMAIN data THEN "KeyError"
    ELSE IF {"z", "x", "y"} \ DOMAIN data # {} THEN "AttributeError"
    ELSE "none"

\* the exception the geometry block raises
GeometryRaise(data) ==
    IF RowsOf(data) = {} THEN "IndexError"
    ELSE IF {"x", "y"} \ DOMAIN data # {} THEN "AttributeError"
    ELSE "none"

\* first_loc and geometry
Geometry(data) ==
    CHOOSE g \in
        {[first_loc |-> Point(data["x"][1], data["y"][1]),
          geometry |-> IF Len(coords) > 1 THEN LineString(coords)
                       ELSE IF Len(coords) = 1
                       THEN Point(data["x"][1], data["y"][1])
                       ELSE None] :
            coords \in {unique_justseen(
                            [i \in DOMAIN data["x"] |->
                               <<data["x"][i].v, data["y"][i].v>>])}} : TRUE

\* the value calculated_metadata returns when nothing is raised
Raised(exc) ==
    [exc |-> exc, min_t |-> Masked, max_t |-> Masked,
     profiles |-> [pid \in {} |-> 0], first_loc |-> None, geometry |-> None]

\* calculated_metadata, from the table on: the results the call can have
calculated_metadata(table, geometries) ==
    UNION
    {IF table.exc # "none" THEN {Raised(table.exc)}
     ELSE IF ProfilesRaise(data) # "none" THEN {Raised(ProfilesRaise(data))}
     ELSE IF geometries /\ GeometryRaise(data) # "none"
          THEN {Raised(GeometryRaise(data))}
     ELSE IF "t" \notin DOMAIN data THEN {Raised("AttributeError")}
     ELSE {[exc |-> "none",
            min_t |-> series_min(data["t"]),
            max_t |-> series_max(data["t"]),
            profiles |-> [pid \in group_keys(data) |->
                            Profile(data, group_rows(data, pid), anchor[pid])],
            first_loc |-> IF geometries THEN Geometry(data).first_loc
                          ELSE None,
            geometry |-> IF geometries THEN Geometry(data).geometry
                         ELSE None] :
              anchor \in {a \in [group_keys(data) -> RowsOf(data)] :
                            \A pid \in group_keys(data) :
                               a[pid] \in first_row(group_rows(data, pid),
                                                    data["t"])}} :
        data \in {table.data}}

\* ---------------------------------------------------- the summary: inputs

MaxSummaryP == 3
MaxSummaryCells == 4

\* the profile ids of a generated dataset; two profiles may share one, and
\* the first profile has the first id
ProfileIds == {7, 8}

\* (time, longitude, latitude) of one profile: two places at one time, and
\* the first place again at a later time
SummaryStations == {[t |-> 1, x |-> 1000004, y |-> 5000004],
                    [t |-> 1, x |-> 2000006, y |-> 5000004],
                    [t |-> 2, x |-> 1000004, y |-> 5000004]}

\* masks of the data variables: none; or one that is valid everywhere,
\* nowhere, or everywhere but in the first cell
SummaryVMasks(n) == {<<>>,
                     <<[i \in 1..n |-> FALSE]>>,
                     <<[i \in 1..n |-> TRUE]>>,
                     <<[i \in 1..n |-> i = 1]>>}

\* a ProfileGrid dataset with the given numeric profile ids
SummaryGrid(P, Z, ids, st, zmask, vmask) ==
    [ProfileGrid(P, Z, Len(vmask), TRUE, st, zmask, vmask)
        EXCEPT !.pvars[1].data = [i \in 1..P |-> Num(ids[i])]]

InitSummarize ==
    /\ \E P \in 1..MaxSummaryP, Z \in 1..MaxZ :
         /\ P * Z <= MaxSummaryCells
         /\ \E ids \in {f \in [1..P -> ProfileIds] : f[1] = 7},
               st \in [1..P -> SummaryStations],
               zmask \in ZMasks(P * Z), vmask \in SummaryVMasks(P * Z) :
              dsg = SummaryGrid(P, Z, ids, st, zmask, vmask)
    /\ mine = "unset"
    /\ ts_mine = "unset"
    /\ df = NoDf
    /\ data_dict = NoDict
    /\ urn = NoUrn
    /\ decoded = NoDecoded
    /\ meta = NoMeta
    /\ scanned = NoScan

\* a call of calculated_metadata(geometries, clean_cols, clean_rows) on the
\* dataset; df keeps the table the call built
CalculatedMetadata(geometries, clean_cols, clean_rows) ==
    /\ meta = NoMeta
    /\ scanned = NoScan
    /\ df = NoDf
    /\ \E table \in {to_dataframe(dsg, clean_cols, clean_rows)} :
         \E m \in calculated_metadata(table, geometries) :
            /\ df' = table
            /\ meta' = [exc |-> m.exc, geometries |-> geometries, value |-> m]
    /\ UNCHANGED <<dsg, mine, ts_mine, data_dict, urn, decoded, scanned>>

\* one call on the dataset: of to_dataframe, or of calculated_metadata
NextSummarize ==
    \/ \E clean_cols \in BOOLEAN, clean_rows \in BOOLEAN :
          ToDataframe(clean_cols, clean_rows)
    \/ \E geometries \in BOOLEAN, clean_cols \in BOOLEAN,
          clean_rows \in BOOLEAN :
          CalculatedMetadata(geometries, clean_cols, clean_rows)

SpecSummarize == InitSummarize /\ [][NextSummarize]_vars

\* ---------------------------------------------------- the summary: claims

Summary == meta.value
TableRows == DOMAIN df.data["profile"]
RowsWithId(pid) == {i \in TableRows : df.data["profile"][i].v = pid}
\* cell is the least (greatest) valid value of the column over the rows, and
\* invalid when the rows hold no valid value
IsLeast(cell, col, rows) ==
    LET vs == {col[i].v : i \in {j \in rows : ~col[j].mask}}
    IN IF vs = {} THEN cell.mask
       ELSE ~cell.mask /\ cell.v \in vs /\ \A w \in vs : cell.v <= w
IsGreatest(cell, col, rows) ==
    LET vs == {col[i].v : i \in {j \in rows : ~col[j].mask}}
    IN IF vs = {} THEN cell.mask
       ELSE ~cell.mask /\ cell.v \in vs /\ \A w \in vs : cell.v >= w

\* C15: a summary that is returned has one entry for each instance id of the
\* table; the entry's min_z and max_z are the minimum and maximum of the
\* vertical column over exactly the rows of that id, and min_t and max_t are
\* the minimum and maximum of the time column over all rows of the table.
C15_Extents ==
    meta.exc = "none" =>
        /\ DOMAIN Summary.profiles = {df.data["profile"][i].v : i \in TableRows}
        /\ \A pid \in DOMAIN Summary.profiles :
             /\ IsLeast(Summary.profiles[pid].min_z, df.data["z"],
                        RowsWithId(pid))
             /\ IsGreatest(Summary.profiles[pid].max_z, df.data["z"],
                           RowsWithId(pid))
        /\ IsLeast(Summary.min_t, df.data["t"], TableRows)
        /\ IsGreatest(Summary.max_t, df.data["t"], TableRows)

\* C15's case: the rows of one id lie around the row of another id, so that
\* the vertical ranges of the two ids overlap, and the times differ
C15_Witness ==
    /\ meta.exc = "none"
    /\ DOMAIN Summary.profiles = {7, 8}
    /\ ~Summary.profiles[7].min_z.mask /\ ~Summary.profiles[8].min_z.mask
    /\ Summary.profiles[7].min_z.v < Summary.profiles[8].min_z.v
    /\ Summary.profiles[8].max_z.v < Summary.profiles[7].max_z.v
    /\ Summary.min_t.v < Summary.max_t.v

\* the (longitude, latitude) pair of a row of the table
PairOf(i) == <<df.data["x"][i].v, df.data["y"][i].v>>
\* the rows whose pair differs from the pair of the row before, in table order
TurningRows ==
    SelectSeq([i \in DOMAIN df.data["x"] |-> i],
              LAMBDA i : i = 1 \/ PairOf(i) # PairOf(i - 1))

\* C16: the geometry of a returned summary is built from the pairs of the
\* table in table order, leaving out only a pair equal to the pair of the row
\* just before it: a point when one pair remains, a path through all the
\* remaining pairs otherwise.
C16_Geometry ==
    meta.exc = "none" /\ meta.geometries =>
        /\ Len(TurningRows) = 1 =>
             Summary.geometry = [kind |-> "Point",
                                 coords |-> <<PairOf(TurningRows[1])>>]
        /\ Len(TurningRows) # 1 =>
             Summary.geometry =
                [kind |-> "LineString",
                 coords |-> [j \in DOMAIN TurningRows |-> PairOf(TurningRows[j])]]

\* C16's case: the path leaves a place and comes back to it, in a table whose
\* rows are not in the order of their times
C16_Witness ==
    /\ meta.exc = "none" /\ meta.geometries
    /\ Summary.geometry.kind = "LineString"
    /\ Len(Summary.geometry.coords) = 3
    /\ Summary.geometry.coords[1] = Summary.geometry.coords[3]
    /\ df.data["t"][1].v > df.data["t"][2].v

\* C17: on a table without rows the call does not raise: it returns a
\* summary whose geometry is None and whose instance mapping is empty.
C17_EmptyTable ==
    meta.exc # "unset" /\ df.exc = "none" /\ df.rows = <<>> =>
        /\ meta.exc = "none"
        /\ Summary.geometry = None
        /\ DOMAIN Summary.profiles = {}

\* the rows of an id whose time is the least of the id's rows
EarliestRows(pid) ==
    {i \in RowsWithId(pid) :
       \A j \in RowsWithId(pid) : df.data["t"][i].v <= df.data["t"][j].v}

StepTo(j) ==
    great_distance(df.data["y"][j - 1], df.data["x"][j - 1],
                   df.data["y"][j], df.data["x"][j])

RECURSIVE PathLength(_)
\* the sum of the steps up to row i
PathLength(i) == IF i <= 1 THEN 0 ELSE PathLength(i - 1) + StepTo(i)

\* the distance column starts at 0, never decreases, and does not change
\* between two rows of one profile
DistanceShape ==
    LET d == df.data["distance"]
    IN /\ d[1] = Num(0)
       /\ \A i \in 2..Len(d) :
            /\ StepTo(i) >= 0
            /\ ~d[i].mask /\ d[i].v >= d[i - 1].v
            /\ ((i - 1) \div FlatZ) = ((i - 2) \div FlatZ) => d[i] = d[i - 1]

\* C19 as stated: in the unpruned table the distance column is 0 in row 0 and
\* in every later row equals the running sum of the non-negative distances
\* between the positions of consecutive rows; it never decreases and does not
\* change between consecutive rows of the same profile.
C19_RunningSum ==
    df.exc = "none" /\ ~df.clean_rows =>
        /\ DistanceShape
        /\ \A i \in DOMAIN df.data["distance"] :
             df.data["distance"][i] = Num(PathLength(i))

\* C19 amended: the same, the distance column being the running sum rounded
\* to 2 decimals.
C19_RoundedRunningSum ==
    df.exc = "none" /\ ~df.clean_rows =>
        /\ DistanceShape
        /\ \A i \in DOMAIN df.data["distance"] :
             df.data["distance"][i] = Num(RoundTo(PathLength(i), Decimals2))

\* C19's case: three profiles at places that differ from one to the next, so
\* that two steps add up, and a sum that rounding changes
C19_Witness ==
    /\ df.exc = "none" /\ ~df.clean_rows
    /\ Len(df.data["distance"]) = 3
    /\ 0 < df.data["distance"][2].v
    /\ df.data["distance"][2].v < df.data["distance"][3].v
    /\ df.data["distance"][3].v # PathLength(3)

\* the profile ids cannot be coerced to integers
IdsNotNumeric == \E i \in DOMAIN dsg.pvars[1].data : ~dsg.pvars[1].data[i].num

\* the dataset with ids that can be coerced
WithNumericIds ==
    [dsg EXCEPT !.pvars[1].data = [i \in DOMAIN dsg.pvars[1].data |-> Num(100 + i)]]

\* C20: when the profile ids cannot be coerced to integers the call does not
\* fail; the instance column holds the ids 0..P-1 in profile order, each Z
\* times, and every other column is what it is with ids that can be coerced.
C20_SyntheticIds ==
    df.exc # "unset" /\ IdsNotNumeric =>
        /\ df.exc = "none"
        /\ "profile" \in DOMAIN df.data
        /\ \A i \in DOMAIN df.rows :
             df.data["profile"][i] = Num((df.rows[i] - 1) \div FlatZ)
        /\ ~df.clean_rows =>
             df.data["profile"] = [k \in 1..(FlatP * FlatZ) |->
                                     Num((k - 1) \div FlatZ)]
        /\ \E usual \in {to_dataframe(WithNumericIds, df.clean_cols,
                                      df.clean_rows)} :
             /\ usual.exc = "none"
             /\ usual.rows = df.rows
             /\ DOMAIN usual.data = DOMAIN df.data
             /\ \A c \in DOMAIN df.data \ {"profile"} :
                  usual.data[c] = df.data[c]

\* C20's case: two profiles of two levels with text ids, nothing pruned
C20_Witness ==
    /\ df.exc = "none" /\ ~df.clean_rows /\ IdsNotNumeric
    /\ FlatP = 2 /\ FlatZ = 2
    /\ df.data["profile"] = <<Num(0), Num(0), Num(1), Num(1)>>

\* ------------------------------------------------ the codec: more claims

\* the state a call of urnify_from_dict on a record leaves
Encoded ==
    data_dict.set /\ urn.exc = "none" /\ urn.calls = 1 /\ decoded = NoDecoded

\* the clauses of the identifier: what follows '#', cut at every ';'
Clauses ==
    IF Contains(urn.urn, "#")
    THEN split(SubSeq(urn.urn, Find(urn.urn, "#") + 1, Len(urn.urn)), ";")
    ELSE <<>>

\* the clause starts with key=
IsClauseOf(clause, key) ==
    /\ Len(clause) > Len(key)
    /\ SubSeq(clause, 1, Len(key) + 1) = key \o <<"=">>

\* the identifier has a clause of the key, and the text after key= in it
HasClause(key) == \E i \in DOMAIN Clauses : IsClauseOf(Clauses[i], key)
ClauseText(key) ==
    LET c == Clauses[CHOOSE i \in DOMAIN Clauses : IsClauseOf(Clauses[i], key)]
    IN SubSeq(c, Len(key) + 2, Len(c))

\* the entries of the record: the (domain, method) pairs the scan of the
\* record's cell_methods hands to the grouping, in the order of the text
RecordEntries ==
    IF data_dict.cell_methods # <<>>
    THEN CellMethodPairs(data_dict.cell_methods) ELSE <<>>

\* how often e occurs in the sequence
Count(e, seq) == Cardinality({i \in DOMAIN seq : seq[i] = e})

\* C21: the cell_methods clause of the identifier holds exactly the entries
\* of the record whose domain is time or area, each as domain:method, joined
\* by commas, with the domains in alphabetical order (every area entry before
\* every time entry); entries of another domain are left out, and there is
\* no cell_methods clause when nothing is left.
C21_CellMethodsClause ==
    Encoded =>
        \E wanted \in {SelectSeq(RecordEntries,
                                 LAMBDA p : p[1] \in EntryDomains)},
           items \in {IF HasClause(TXT_cell_methods)
                      THEN split(ClauseText(TXT_cell_methods), ",")
                      ELSE <<>>} :
          \E shown \in {[i \in DOMAIN wanted |->
                           wanted[i][1] \o <<":">> \o wanted[i][2]]},
             domains \in {[i \in DOMAIN items |-> split(items[i], ":")[1]]} :
            /\ items # <<>> <=> wanted # <<>>
            /\ Len(items) = Len(shown)
            /\ \A e \in Range(items) \cup Range(shown) :
                 Count(e, items) = Count(e, shown)
            /\ \A i, j \in DOMAIN items :
                 i < j => ~TextLess(domains[j], domains[i])

\* C21's case: a record that names time before area is rendered with area
\* before time
C21_Witness ==
    /\ Encoded
    /\ Len(RecordEntries) = 2
    /\ RecordEntries[1][1] = TXT_time
    /\ RecordEntries[2][1] = TXT_area
    /\ HasClause(TXT_cell_methods)
    /\ ClauseText(TXT_cell_methods)
         = TXT_area \o <<":">> \o RecordEntries[2][2] \o <<",">>
           \o TXT_time \o <<":">> \o RecordEntries[1][2]

\* the text holds no lowercase letter
NoLowercase(text) == \A i \in DOMAIN text : text[i] \notin Range(LowerAlphabet)

\* C22: in the identifier urnify_from_dict returns, the text after
\* vertical_datum= and every token after interval= hold no lowercase letter.
C22_UpperCased ==
    Encoded =>
        /\ HasClause(TXT_vertical_datum) =>
             NoLowercase(ClauseText(TXT_vertical_datum))
        /\ HasClause(TXT_interval) =>
             \A token \in Range(split(ClauseText(TXT_interval), ",")) :
                NoLowercase(token)

\* the key and the value of a clause: the text before and the text after
\* the first '='
KeyOf(clause) == SubSeq(clause, 1, Find(clause, "=") - 1)
ValueOf(clause) == SubSeq(clause, Find(clause, "=") + 1, Len(clause))

\* the value holds none of the characters the decoder rewrites or splits at
PlainValue(value) ==
    \A i \in DOMAIN value : value[i] \notin {"_", ":", ","}

\* an identifier of a sensor was decoded, every clause of it has a '=' and
\* one of them has more than one
DecodedSecondEquals ==
    /\ decoded.exc # "unset"
    /\ ~Malformed /\ Fields[3] = TXT_sensor
    /\ \A i \in DOMAIN Clauses : Contains(Clauses[i], "=")
    /\ \E i \in DOMAIN Clauses : Count("=", Clauses[i]) > 1

\* C23: dictify_urn splits a clause at its first '=' only: a clause whose
\* value holds a '=' is decoded without raising, its key being the text
\* before the first '=' and its value all the text after it.
C23_FirstEqualsOnly ==
    DecodedSecondEquals =>
        /\ decoded.exc = "none"
        /\ \A i \in DOMAIN Clauses :
             /\ KeyOf(Clauses[i]) \notin {TXT_interval, TXT_cell_methods}
             /\ PlainValue(ValueOf(Clauses[i]))
             => /\ Has(KeyOf(Clauses[i]))
                /\ decoded.d[KeyOf(Clauses[i])]
                     = (IF KeyOf(Clauses[i]) = TXT_vertical_datum
                        THEN upper(ValueOf(Clauses[i]))
                        ELSE ValueOf(Clauses[i]))

\* the index of the last c in s
FindLast(s, c) ==
    CHOOSE i \in DOMAIN s : s[i] = c /\ \A j \in (i + 1)..Len(s) : s[j] # c

\* an identifier of a sensor was decoded into a record
DecodedSensor ==
    decoded.exc = "none" /\ ~Malformed /\ Fields[3] = TXT_sensor

\* C29: dictify_urn reports a discriminant only when the name part of the
\* component (the text before '#') holds a '-'; then standard_name is the
\* text before the '-' and discriminant the text after it; a '-' that occurs
\* in the clauses only makes no discriminant.
C29_DiscriminantFromName ==
    DecodedSensor =>
        \E n \in {NamePart(urn.urn)} :
           IF Contains(n, "-")
           THEN /\ Has(TXT_discriminant)
                /\ decoded.d[TXT_standard_name] = SubSeq(n, 1, Find(n, "-") - 1)
                /\ decoded.d[TXT_discriminant]
                     = SubSeq(n, FindLast(n, "-") + 1, Len(n))
           ELSE /\ ~Has(TXT_discriminant)
                /\ decoded.d[TXT_standard_name] = n

\* --------------------------------------------------- the scan on its own

MaxEntries == 2

\* domains and methods of one word each; one method holds the name of a
\* domain
ScanDomains == {TXT_time, TXT_area, <<"d", "e", "p", "t", "h">>}
ScanMethods == {<<"m", "e", "a", "n">>,
                <<"m", "a", "x">>,
                <<"m", "e", "a", "n", "t", "i", "m", "e">>}

\* 'd1: m1 d2: m2 ... dn: mn'
FormOf(entries) ==
    join(<<" ">>, [i \in DOMAIN entries |->
                     entries[i][1] \o <<":", " ">> \o entries[i][2]])

InitScan ==
    /\ \E n \in 1..MaxEntries :
         \E entries \in [1..n -> ScanDomains \X ScanMethods] :
            scanned = [done |-> FALSE, entries |-> entries,
                       cm |-> FormOf(entries), keys |-> <<>>, values |-> <<>>]
    /\ dsg = NoDataset
    /\ mine = "unset"
    /\ ts_mine = "unset"
    /\ df = NoDf
    /\ data_dict = NoDict
    /\ urn = NoUrn
    /\ decoded = NoDecoded
    /\ meta = NoMeta

\* the loop of urnify_from_dict over the characters of the text
Scan ==
    /\ ~scanned.done
    /\ \E found \in {scan(scanned.cm, 1, <<>>, <<>>, <<>>)} :
          scanned' = [scanned EXCEPT !.done = TRUE, !.keys = found.keys,
                                     !.values = found.values]
    /\ UNCHANGED <<dsg, mine, ts_mine, df, data_dict, urn, decoded, meta>>

NextScan == Scan

SpecScan == InitScan /\ [][NextScan]_vars

\* C28: from a text of the form 'd1: m1 d2: m2 ... dn: mn' with domains and
\* methods of one word and no ':' the scan recovers exactly the pairs
\* (d1, m1) ... (dn, mn), in order and with as many keys as values, also when
\* a method holds the name of the domain that follows it.
C28_ScanRecoversPairs ==
    scanned.done =>
        /\ Len(scanned.keys) = Len(scanned.entries)
        /\ Len(scanned.values) = Len(scanned.entries)
        /\ \A i \in DOMAIN scanned.entries :
             /\ scanned.keys[i] = scanned.entries[i][1]
             /\ scanned.values[i] = scanned.entries[i][2]

\* ------------------------------------------- flatten of what is accepted

\* the variable with an array of as many elements as its size; the elements
\* of a character array are no numbers
Filled(ds, v) ==
    [v EXCEPT !.data = [i \in 1..size(ds, v) |->
                          IF v.dtype = "S1" THEN Text(i)
                          ELSE Num(i * 1000000)]]

\* the dataset with an array in every variable
WithData(ds) ==
    [ds EXCEPT !.pvars = [i \in DOMAIN @ |-> Filled(ds, @[i])],
               !.t_axes = [i \in DOMAIN @ |-> Filled(ds, @[i])],
               !.x_axes = [i \in DOMAIN @ |-> Filled(ds, @[i])],
               !.y_axes = [i \in DOMAIN @ |-> Filled(ds, @[i])],
               !.z_axes = [i \in DOMAIN @ |-> Filled(ds, @[i])],
               !.datavars = [i \in DOMAIN @ |-> Filled(ds, @[i])]]

\* datasets with one profile_id variable, the profile feature type and one
\* axis of each kind, with every structure of the variables
InitAccepted ==
    /\ \E ft \in {Attr(<<"p","r","o","f","i","l","e">>),
                  Attr(<<"P","r","o","f","i","l","e">>)},
          dtype \in {"i4", "S1"}, pdims \in IdDimensions,
          tdims \in AxisDimensions, xydims \in AxisDimensions,
          zdims \in GridDimensions,
          dvs \in {<<>>} \cup {<<Var("temperature", "f8", g)>> :
                                 g \in GridDimensions} :
         dsg = WithData(ProfileDataset(1, ft, [k \in {"t", "x", "y", "z"} |-> 1],
                                       dtype, pdims, tdims, xydims, zdims, dvs))
    /\ mine = "unset"
    /\ ts_mine = "unset"
    /\ df = NoDf
    /\ data_dict = NoDict
    /\ urn = NoUrn
    /\ decoded = NoDecoded
    /\ meta = NoMeta
    /\ scanned = NoScan

\* a call of to_dataframe on a dataset the classifier matched
ToDataframeAccepted(clean_cols, clean_rows) ==
    /\ mine = "match"
    /\ ToDataframe(clean_cols, clean_rows)

NextAccepted ==
    \/ ProfileIsMine
    \/ \E clean_cols \in BOOLEAN, clean_rows \in BOOLEAN :
          ToDataframeAccepted(clean_cols, clean_rows)

SpecAccepted == InitAccepted /\ [][NextAccepted]_vars

\* C24: every dataset the classifier matches can be flattened: the call does
\* not fail, and the columns of the unpruned table (instance, time, longitude,
\* latitude, vertical, distance and each data variable) all have size(P) x
\* size(Z) rows, also when the profile_id variable has 2 dimensions.
C24_AcceptedFlattens ==
    mine = "match" /\ df.exc # "unset" =>
        /\ df.exc = "none"
        /\ ~df.clean_cols /\ ~df.clean_rows =>
             /\ CoordinateColumns \cup DataNames \subseteq DOMAIN df.data
             /\ \A c \in DOMAIN df.data :
                  Len(df.data[c]) = dsg.dimensions[P_name] * dsg.dimensions[Z_name]

\* C25: in every dataset the classifier matches, the vertical axis and each
\* data variable have their two dimensions in the order (P, Z).
C25_GridOrder ==
    mine = "match" =>
        \A v \in {dsg.z_axes[1]} \cup {dsg.datavars[k] : k \in DOMAIN dsg.datavars} :
            v.dimensions = <<P_name, Z_name>>

\* ------------------------------------------------- the table: pruning

\* the data-variable columns of the table
DataColumns == DataNames \cap DOMAIN df.data

\* C26: with drop_empty_columns and drop_empty_rows both on, every row of the
\* table has a valid value in some data-variable column, and every
\* data-variable column of the table has a valid value in some row of it.
C26_PrunedBothWays ==
    (df.exc = "none" /\ df.clean_cols /\ df.clean_rows) =>
        /\ \A i \in DOMAIN df.rows : \E c \in DataColumns : ~df.data[c][i].mask
        /\ \A c \in DataColumns : \E i \in DOMAIN df.rows : ~df.data[c][i].mask

\* C26's case: of two data variables one is invalid everywhere and its column
\* is removed, and of the rows one is removed and one is kept
C26_Witness ==
    /\ df.exc = "none" /\ df.clean_cols /\ df.clean_rows
    /\ Len(dsg.datavars) = 2
    /\ Cardinality(DataColumns) = 1
    /\ Len(df.rows) >= 1
    /\ Len(df.rows) < FlatP * FlatZ

\* C27: of a dataset without data variables, the table has no rows with
\* drop_empty_rows and all size(P) x size(Z) rows without it.
C27_NoDataVariables ==
    (df.exc = "none" /\ Len(dsg.datavars) = 0) =>
        /\ Len(df.rows) = (IF df.clean_rows THEN 0 ELSE FlatP * FlatZ)
        /\ \A c \in DOMAIN df.data : Len(df.data[c]) = Len(df.rows)

\* C27's case: a grid of 2 cells or more, no data variable, and the table
\* without rows
C27_Witness ==
    /\ df.exc = "none" /\ df.clean_rows
    /\ Len(dsg.datavars) = 0
    /\ FlatP * FlatZ >= 2
    /\ df.rows = <<>>
    /\ "t" \in DOMAIN df.data

\* ------------------------------------------- classification: both kinds

\* both classifiers were called and returned match or no match
BothReturned ==
    /\ mine \in {"match", "nomatch"}
    /\ ts_mine \in {"match", "nomatch"}

\* C30: no dataset on which both classifiers return is a match of both.
C30_AtMostOneKind ==
    BothReturned => ~(mine = "match" /\ ts_mine = "match")

\* C30's case: a match of the profile classifier that holds one
\* timeseries_id variable and a time axis of 2 dimensions, and that the
\* timeseries classifier turns down
C30_Witness ==
    /\ mine = "match" /\ ts_mine = "nomatch"
    /\ Len(dsg.rvars) = 1
    /\ Len(dsg.rvars[1].dimensions) <= 2
    /\ Len(dsg.t_axes[1].dimensions) = 2
    /\ dsg.sample_dimension_vars = 0 /\ dsg.instance_dimension_vars = 0

====
